---- MODULE Spec2Model ----
(***************************************************************************)
(* A model of git-wt (raisedadead/git-wt): the layered configuration       *)
(* resolver (internal/config), the hook runner (internal/hooks), the git   *)
(* command executor, the project root lookup, the worktree listing parser  *)
(* and the name validators (internal/git), and the commands new, delete,   *)
(* prune and clone (internal/commands).                                    *)
(*                                                                         *)
(* Each subsystem has its own specification over its own variables; the    *)
(* variables of the other subsystems stay at their initial values.         *)
(***************************************************************************)
EXTENDS Integers, Sequences, FiniteSets, TLC

VARIABLES
    fs,             \* config files on disk: path -> [kind, cfg]
    projectRoot,    \* the projectRoot argument of LoadWithRepo / LoadEffective
    lwr,            \* what LoadWithRepo returned
    le,             \* what LoadEffective returned
    base,           \* MergeConfig: the object *base points to
    override,       \* MergeConfig: the object *override points to
    merged,         \* MergeConfig: the returned object, Nil before the call
    qcmd,           \* expandTemplates: the command string s
    qctx,           \* expandTemplates: the hooks.Context
    qpc,            \* expandTemplates: "start", "expanded", "read"
    qout,           \* expandTemplates: the returned string
    qread,          \* what sh -c reads in the returned string
    hcommands,      \* RunWithTimeout: commands
    hctx,           \* RunWithTimeout: ctx
    htimeout,       \* RunWithTimeout: timeoutSec
    hpc,            \* RunWithTimeout: where the call stands
    hi,             \* RunWithTimeout: index (from 1) of the loop's command
    hcmdStr,        \* cmdStr of the current iteration, expanded
    hctxErr,        \* execCtx.Err() of the current iteration
    hrunErr,        \* err of the current iteration's cmd.Run()
    hprocs,         \* the process groups the call has spawned, in order
    hwarnings,      \* RunWithTimeout: warnings
    xvariant,       \* executor: "capture" (RunInDirWithTimeout) or "progress"
    xtimeout,       \* executor: timeoutSec
    xargs,          \* executor: args
    xpc,            \* executor: where the call stands
    xctxErr,        \* executor: ctx.Err()
    xrunErr,        \* executor: what cmd.Run() returned
    xproc,          \* the git child: "none", "running", "exited0", "exitedN", "killed"
    xheld,          \* a descendant of git holds git's stdout/stderr open
    xstdout,        \* what git wrote to its stdout
    xstderr,        \* what git wrote to its stderr
    xresult,        \* executor: the returned (string, error)
    rfs,            \* GetProjectRoot: directory -> what .bare and .git are in it
    rcwd,           \* GetProjectRoot: the working directory, or that it is gone
    rstart,         \* GetProjectRoot: worktreePath
    rpc,            \* GetProjectRoot: where the call stands
    rdir,           \* GetProjectRoot: dir
    rvisited,       \* the directories IsBareRepo was asked about, in order
    rresult,        \* GetProjectRoot: the returned (string, error)
    pout,           \* parseWorktreeList: output
    ppc,            \* parseWorktreeList: "start" or "done"
    pworktrees,     \* parseWorktreeList: the returned []Worktree
    vname,          \* ValidateBranchName / ValidateProjectName: name
    vpc,            \* the validator: "start" or "done"
    verr,           \* the validator: the returned error
    gwt,            \* git: the registered worktrees, in the order of the listing
    gbranches,      \* git: the local branches
    gdirty,         \* the worktrees with uncommitted changes
    gremote,        \* git: the branches of the remote
    fdirs,          \* the directories that exist
    clog,           \* the subprocesses and file system calls of the running command
    call,           \* the running command and its arguments
    cpc,            \* where the running command stands
    loc,            \* the local variables of the running command
    cout,           \* what the command returned and printed
    bprev,          \* FlattenBranchName: the call before the last one, [branch, dir]
    blast,          \* FlattenBranchName: the last call, [branch, dir]
    sentries,       \* GetWorktreeStatus: the entries git status has to report
    sfails,         \* GetWorktreeStatus: whether the git subprocess fails
    spc,            \* GetWorktreeStatus: "start" or "done"
    sstatus,        \* GetWorktreeStatus: the returned (string, error)
    dhead,          \* git: the branch refs/remotes/origin/HEAD points to, <<>> without one
    drefs,          \* git: the branches with a remote-tracking ref of origin
    dqueries,       \* GetDefaultBranch: the git subprocesses so far, with their results
    dresult,        \* GetDefaultBranch: the returned (string, error)
    arun,           \* runNew: what the command gave to the hook runner
    tdir,           \* the target directory of clone: 0 when absent, else who created it
    tparent,        \* whether the parent of the target directory exists
    kproc,          \* the clone commands running at once: for each its flags and where it stands
    eresp,          \* the JSON envelope the command wrote to stdout
    eret,           \* the error RunE returned to cobra
    eexit           \* the exit status of the process

configVars == <<fs, projectRoot, lwr, le>>
mergeVars == <<base, override, merged>>
quoteVars == <<qcmd, qctx, qpc, qout, qread>>
hookVars ==
    <<hcommands, hctx, htimeout, hpc, hi, hcmdStr, hctxErr, hrunErr, hprocs, hwarnings>>

execVars ==
    <<xvariant, xtimeout, xargs, xpc, xctxErr, xrunErr, xproc, xheld, xstdout, xstderr, xresult>>

rootVars == <<rfs, rcwd, rstart, rpc, rdir, rvisited, rresult>>

parseVars == <<pout, ppc, pworktrees>>

validateVars == <<vname, vpc, verr>>
cmdVars == <<gwt, gbranches, gdirty, gremote, fdirs, clog, call, cpc, loc, cout>>
flattenVars == <<bprev, blast>>
statusVars == <<sentries, sfails, spc, sstatus>>
defaultVars == <<dhead, drefs, dqueries, dresult>>
addVars == <<arun>>
raceVars == <<tdir, tparent, kproc>>
exitVars == <<eresp, eret, eexit>>

vars ==
    <<configVars, mergeVars, quoteVars, hookVars, execVars, rootVars, parseVars, validateVars,
    cmdVars,
    flattenVars,
    statusVars,
    defaultVars,
    addVars,
    raceVars,
    exitVars>>

\* the variables of the other subsystems
notConfig == <<mergeVars, quoteVars, hookVars, execVars, rootVars, parseVars, validateVars,
    cmdVars,
    flattenVars,
    statusVars,
    defaultVars,
    addVars,
    raceVars,
    exitVars>>
notMerge == <<configVars, quoteVars, hookVars, execVars, rootVars, parseVars, validateVars,
    cmdVars,
    flattenVars,
    statusVars,
    defaultVars,
    addVars,
    raceVars,
    exitVars>>
notQuote == <<configVars, mergeVars, hookVars, execVars, rootVars, parseVars, validateVars,
    cmdVars,
    flattenVars,
    statusVars,
    defaultVars,
    addVars,
    raceVars,
    exitVars>>
notHooks == <<configVars, mergeVars, quoteVars, execVars, rootVars, parseVars, validateVars,
    cmdVars,
    flattenVars,
    statusVars,
    defaultVars,
    addVars,
    raceVars,
    exitVars>>
notExec == <<configVars, mergeVars, quoteVars, hookVars, rootVars, parseVars, validateVars,
    cmdVars,
    flattenVars,
    statusVars,
    defaultVars,
    addVars,
    raceVars,
    exitVars>>
notRoot == <<configVars, mergeVars, quoteVars, hookVars, execVars, parseVars, validateVars,
    cmdVars,
    flattenVars,
    statusVars,
    defaultVars,
    addVars,
    raceVars,
    exitVars>>
notParse == <<configVars, mergeVars, quoteVars, hookVars, execVars, rootVars, validateVars,
    cmdVars,
    flattenVars,
    statusVars,
    defaultVars,
    addVars,
    raceVars,
    exitVars>>
notValidate == <<configVars, mergeVars, quoteVars, hookVars, execVars, rootVars, parseVars,
    cmdVars,
    flattenVars,
    statusVars,
    defaultVars,
    addVars,
    raceVars,
    exitVars>>
notCmd == <<configVars, mergeVars, quoteVars, hookVars, execVars, rootVars, parseVars,
    validateVars,
    flattenVars,
    statusVars,
    defaultVars,
    addVars,
    raceVars,
    exitVars>>
notFlatten == <<configVars, mergeVars, quoteVars, hookVars, execVars, rootVars,
    parseVars, validateVars, cmdVars,
    statusVars,
    defaultVars,
    addVars,
    raceVars,
    exitVars>>
notStatus == <<configVars, mergeVars, quoteVars, hookVars, execVars, rootVars,
    parseVars, validateVars, cmdVars, flattenVars,
    defaultVars,
    addVars,
    raceVars,
    exitVars>>
notDefault == <<configVars, mergeVars, quoteVars, hookVars, execVars, rootVars,
    parseVars, validateVars, cmdVars, flattenVars, statusVars,
    addVars,
    raceVars,
    exitVars>>
notAdd == <<configVars, mergeVars, quoteVars, hookVars, execVars, rootVars,
    parseVars, validateVars, cmdVars, flattenVars, statusVars, defaultVars,
    raceVars,
    exitVars>>
notRace == <<configVars, mergeVars, quoteVars, hookVars, execVars, rootVars,
    parseVars, validateVars, cmdVars, flattenVars, statusVars, defaultVars,
    addVars,
    exitVars>>
notExit == <<configVars, mergeVars, quoteVars, hookVars, execVars, rootVars,
    parseVars, validateVars, cmdVars, flattenVars, statusVars, defaultVars,
    addVars, raceVars>>

(***************************************************************************)
(* Bounds                                                                  *)
(***************************************************************************)
\* a config file of the model sets at most this many of the nine fields
MaxSetFields == 2
\* the longest context value (a branch name) and the longest hook command
\* given to expandTemplates, in tokens
MaxValueLen == 2
MaxCmdLen == 2
\* the longest hook list given to RunWithTimeout
MaxCommands == 2
\* how many children a hook's shell has alive at once
MaxChildren == 1

(***************************************************************************)
(* internal/config: Config, DefaultConfig                                  *)
(***************************************************************************)
Nil == [nil |-> TRUE]

StringFields == {"WorktreeRoot", "DefaultRemote", "DefaultBaseBranch", "BranchTemplate"}
IntFields == {"GitTimeout", "GitLongTimeout", "HookTimeout"}
ListFields == {"PostClone", "PostAdd"}
ConfigFields == StringFields \cup IntFields \cup ListFields

\* the zero value &Config{}
ZeroConfig ==
    [WorktreeRoot |-> "", DefaultRemote |-> "", DefaultBaseBranch |-> "",
     BranchTemplate |-> "", GitTimeout |-> 0, GitLongTimeout |-> 0,
     HookTimeout |-> 0, PostClone |-> <<>>, PostAdd |-> <<>>]

DefaultConfig ==
    [WorktreeRoot |-> "", DefaultRemote |-> "origin", DefaultBaseBranch |-> "",
     BranchTemplate |-> "{{type}}-{{number}}-{{slug}}", GitTimeout |-> 120,
     GitLongTimeout |-> 600, HookTimeout |-> 30, PostClone |-> <<>>,
     PostAdd |-> <<>>]

\* the Go zero test of each field type: "", 0, len(list) = 0
IsZero(f, v) ==
    IF f \in StringFields THEN v = ""
    ELSE IF f \in IntFields THEN v = 0
    ELSE Len(v) = 0

NumSet(c) == Cardinality({f \in ConfigFields : ~IsZero(f, c[f])})

\* the decoded contents a well-formed file can have; a TOML integer may be
\* negative, a TOML array may be empty
ConfigsOver(strs, ints, lists) ==
    {c \in [WorktreeRoot : strs, DefaultRemote : strs, DefaultBaseBranch : strs,
            BranchTemplate : strs, GitTimeout : ints, GitLongTimeout : ints,
            HookTimeout : ints, PostClone : lists, PostAdd : lists] :
        NumSet(c) <= MaxSetFields}

GlobalConfigs == ConfigsOver({"", "g"}, {0, 180, -1}, {<<>>, <<"gcmd">>})
RepoConfigs == ConfigsOver({"", "r"}, {0, 60}, {<<>>, <<"rcmd1", "rcmd2">>})

(***************************************************************************)
(* The file system as the config package sees it                           *)
(***************************************************************************)
GlobalPath == "/home/u/.config/git-wt/config.toml"
RepoRoot == "/repo"

GetRepoConfigPath(root) == root \o "/.git-wt.toml"

Paths == {GlobalPath, GetRepoConfigPath(RepoRoot)}

\* os.ReadFile + toml.Unmarshal on a path: the file is missing
\* (os.IsNotExist), cannot be read (any other read error), is not valid
\* TOML for Config, or decodes to cfg
FileStates(cfgs) ==
    {[kind |-> k, cfg |-> ZeroConfig] : k \in {"missing", "unreadable", "malformed"}}
        \cup {[kind |-> "ok", cfg |-> c] : c \in cfgs}

loadRaw_BestEffort(path) ==
    LET f == fs[path] IN
    IF f.kind = "missing" \/ f.kind = "malformed" THEN [cfg |-> ZeroConfig, err |-> "nil"]
    ELSE IF f.kind = "unreadable" THEN [cfg |-> Nil, err |-> "read"]
    ELSE [cfg |-> f.cfg, err |-> "nil"]

\* loadRaw: a zero Config for a missing file, an error for any other read
\* error and for a file that does not decode, else the decoded fields
loadRaw(path) ==
    LET f == fs[path] IN
    IF f.kind = "missing" THEN [cfg |-> ZeroConfig, err |-> "nil"]
    ELSE IF f.kind = "unreadable" THEN [cfg |-> Nil, err |-> "read"]
    ELSE IF f.kind = "malformed" THEN [cfg |-> Nil, err |-> "toml"]
    ELSE [cfg |-> f.cfg, err |-> "nil"]

MergeField_Positive(f, b, o) ==
    IF f \in IntFields THEN (IF o[f] > 0 THEN o[f] ELSE b[f])
    ELSE IF ~IsZero(f, o[f]) THEN o[f] ELSE b[f]

\* one "if override.F != zero { merged.F = override.F }" of MergeConfig
MergeField(f, b, o) == IF ~IsZero(f, o[f]) THEN o[f] ELSE b[f]

MergeConfig(b, o) == [f \in ConfigFields |-> MergeField(f, b, o)]

LoadWithRepo_GlobalWins(globalPath, root) ==
    LET globalCfg == loadRaw(globalPath) IN
    IF globalCfg.err # "nil" THEN [cfg |-> Nil, err |-> globalCfg.err]
    ELSE IF root # "" THEN
        LET repoCfg == loadRaw(GetRepoConfigPath(root)) IN
        IF repoCfg.err # "nil" THEN [cfg |-> Nil, err |-> repoCfg.err]
        ELSE [cfg |-> MergeConfig(MergeConfig(DefaultConfig, repoCfg.cfg), globalCfg.cfg),
              err |-> "nil"]
    ELSE [cfg |-> MergeConfig(DefaultConfig, globalCfg.cfg), err |-> "nil"]

\* LoadWithRepo: defaults, merged with raw(global), merged with raw(repo)
\* when projectRoot is not empty; the first load error aborts
LoadWithRepo(globalPath, root) ==
    LET globalCfg == loadRaw(globalPath) IN
    IF globalCfg.err # "nil" THEN [cfg |-> Nil, err |-> globalCfg.err]
    ELSE
        LET cfg1 == MergeConfig(DefaultConfig, globalCfg.cfg) IN
        IF root # "" THEN
            LET repoCfg == loadRaw(GetRepoConfigPath(root)) IN
            IF repoCfg.err # "nil" THEN [cfg |-> Nil, err |-> repoCfg.err]
            ELSE [cfg |-> MergeConfig(cfg1, repoCfg.cfg), err |-> "nil"]
        ELSE [cfg |-> cfg1, err |-> "nil"]

\* the toml key of a scalar field, the key of the source map
TomlName(f) ==
    CASE f = "WorktreeRoot" -> "worktree_root"
      [] f = "DefaultRemote" -> "default_remote"
      [] f = "DefaultBaseBranch" -> "default_base_branch"
      [] f = "BranchTemplate" -> "branch_template"
      [] f = "GitTimeout" -> "git_timeout"
      [] f = "GitLongTimeout" -> "git_long_timeout"
      [] f = "HookTimeout" -> "hook_timeout"

ScalarFields == StringFields \cup IntFields
ScalarNames == {TomlName(f) : f \in ScalarFields}
FieldOf(n) == CHOOSE f \in ScalarFields : TomlName(f) = n

NilSources == [n \in {} |-> ""]

\* "Mark all as default initially"
DefaultSources == [n \in ScalarNames |-> "default"]

ApplyLayer_KeepsSource(st, c, path) ==
    [cfg |-> [f \in ConfigFields |-> IF ~IsZero(f, c[f]) THEN c[f] ELSE st.cfg[f]],
     sources |-> [n \in ScalarNames |->
        IF FieldOf(n) \in StringFields /\ ~IsZero(FieldOf(n), c[FieldOf(n)])
        THEN path ELSE st.sources[n]]]

\* one layer block of LoadEffective: every non-zero field of the decoded
\* file replaces the value, scalar fields also record the file's path
ApplyLayer(st, c, path) ==
    [cfg |-> [f \in ConfigFields |-> IF ~IsZero(f, c[f]) THEN c[f] ELSE st.cfg[f]],
     sources |-> [n \in ScalarNames |->
        IF ~IsZero(FieldOf(n), c[FieldOf(n)]) THEN path ELSE st.sources[n]]]

InvalidConfig(path) == "invalid config " \o path

\* LoadEffective: a file that os.ReadFile cannot read (missing or any other
\* read error) is skipped; a file that does not decode aborts
LoadEffective(globalPath, root) ==
    LET st0 == [cfg |-> DefaultConfig, sources |-> DefaultSources]
        g == fs[globalPath]
        fail(path) == [cfg |-> Nil, sources |-> NilSources, err |-> InvalidConfig(path)]
    IN
    IF g.kind = "malformed" THEN fail(globalPath)
    ELSE
        LET st1 == IF g.kind = "ok" THEN ApplyLayer(st0, g.cfg, globalPath) ELSE st0 IN
        IF root # "" THEN
            LET repoPath == GetRepoConfigPath(root)
                r == fs[repoPath]
            IN
            IF r.kind = "malformed" THEN fail(repoPath)
            ELSE
                LET st2 == IF r.kind = "ok" THEN ApplyLayer(st1, r.cfg, repoPath) ELSE st1
                IN [cfg |-> st2.cfg, sources |-> st2.sources, err |-> "nil"]
        ELSE [cfg |-> st1.cfg, sources |-> st1.sources, err |-> "nil"]

NoResult == [kind |-> "none", out |-> <<>>, msg |-> <<>>, wraps |-> "nil"]

ExecIdle ==
    /\ xvariant = "capture"
    /\ xtimeout = 0
    /\ xargs = <<>>
    /\ xpc = "idle"
    /\ xctxErr = "nil"
    /\ xrunErr = "nil"
    /\ xproc = "none"
    /\ xheld = FALSE
    /\ xstdout = <<>>
    /\ xstderr = <<>>
    /\ xresult = NoResult

\* what sh reads in the empty string
NothingRead == [words |-> <<>>, active |-> FALSE, open |-> FALSE]

\* the zero value hooks.Context{}
ZeroContext == [Path |-> <<>>, Branch |-> <<>>, ProjectRoot |-> <<>>, DefaultBranch |-> <<>>]

(***************************************************************************)
(* Specification of the configuration resolver                             *)
(***************************************************************************)
NotCalled == [called |-> FALSE]

ConfigIdle ==
    /\ fs = [p \in Paths |-> [kind |-> "missing", cfg |-> ZeroConfig]]
    /\ projectRoot = ""
    /\ lwr = NotCalled
    /\ le = NotCalled

MergeIdle ==
    /\ base = ZeroConfig
    /\ override = ZeroConfig
    /\ merged = Nil

QuoteIdle ==
    /\ qcmd = <<>>
    /\ qctx = ZeroContext
    /\ qpc = "start"
    /\ qout = <<>>
    /\ qread = NothingRead

HooksIdle ==
    /\ hcommands = <<>>
    /\ hctx = ZeroContext
    /\ htimeout = 0
    /\ hpc = "idle"
    /\ hi = 0
    /\ hcmdStr = <<>>
    /\ hctxErr = "nil"
    /\ hrunErr = "nil"
    /\ hprocs = <<>>
    /\ hwarnings = <<>>

RootIdle ==
    /\ rfs = <<>>
    /\ rcwd = [gone |-> FALSE, path |-> <<>>]
    /\ rstart = [abs |-> TRUE, elems |-> <<>>]
    /\ rpc = "idle"
    /\ rdir = <<>>
    /\ rvisited = <<>>
    /\ rresult = [err |-> "nil", root |-> <<>>]

ParseIdle ==
    /\ pout = <<>>
    /\ ppc = "idle"
    /\ pworktrees = <<>>

ValidateIdle ==
    /\ vname = <<>>
    /\ vpc = "idle"
    /\ verr = "nil"

NoCall ==
    [cmd |-> "none", name |-> <<>>, base |-> <<>>, force |-> FALSE, json |-> FALSE,
     dryRun |-> FALSE, yes |-> FALSE]

NoLocals ==
    [worktreePath |-> <<>>, status |-> "", branchDeleted |-> FALSE, stale |-> <<>>,
     staleInfos |-> <<>>, i |-> 0, removed |-> 0]

\* what the command gave back: the error it returned, the data of its JSON
\* document and the kinds of the lines it printed
NoOutput == [err |-> "nil", data |-> <<>>, printed |-> {}]

CmdIdle ==
    /\ gwt = <<>>
    /\ gbranches = {}
    /\ gdirty = {}
    /\ gremote = {}
    /\ fdirs = {}
    /\ clog = <<>>
    /\ call = NoCall
    /\ cpc = "idle"
    /\ loc = NoLocals
    /\ cout = NoOutput

FlattenIdle ==
    /\ bprev = NotCalled
    /\ blast = NotCalled

StatusIdle ==
    /\ sentries = <<>>
    /\ sfails = FALSE
    /\ spc = "idle"
    /\ sstatus = NotCalled

DefaultIdle ==
    /\ dhead = <<>>
    /\ drefs = {}
    /\ dqueries = <<>>
    /\ dresult = NotCalled

AddIdle ==
    /\ arun = NotCalled

RaceIdle ==
    /\ tdir = 0
    /\ tparent = FALSE
    /\ kproc = <<>>

ExitIdle ==
    /\ eresp = NotCalled
    /\ eret = NotCalled
    /\ eexit = NotCalled

InitConfig ==
    /\ \E g \in FileStates(GlobalConfigs), r \in FileStates(RepoConfigs) :
        fs = [p \in Paths |-> IF p = GlobalPath THEN g ELSE r]
    /\ projectRoot \in {"", RepoRoot}
    /\ lwr = NotCalled
    /\ le = NotCalled
    /\ MergeIdle /\ QuoteIdle /\ HooksIdle /\ ExecIdle /\ RootIdle /\ ParseIdle /\ ValidateIdle
    /\ CmdIdle /\ FlattenIdle /\ StatusIdle /\ DefaultIdle /\ AddIdle /\ RaceIdle /\ ExitIdle

\* a command calls config.LoadWithRepo(config.GetConfigPath(), projectRoot)
CallLoadWithRepo ==
    /\ ~lwr.called
    /\ lwr' = [called |-> TRUE, res |-> LoadWithRepo(GlobalPath, projectRoot)]
    /\ UNCHANGED <<fs, projectRoot, le, notConfig>>

\* config show calls config.LoadEffective(config.GetConfigPath(), projectRoot)
CallLoadEffective ==
    /\ ~le.called
    /\ le' = [called |-> TRUE, res |-> LoadEffective(GlobalPath, projectRoot)]
    /\ UNCHANGED <<fs, projectRoot, lwr, notConfig>>

NextConfig == CallLoadWithRepo \/ CallLoadEffective

SpecConfig == InitConfig /\ [][NextConfig]_vars

(***************************************************************************)
(* Specification of MergeConfig on arbitrary arguments                     *)
(***************************************************************************)
InitMerge ==
    /\ base \in GlobalConfigs
    /\ override \in GlobalConfigs \cup RepoConfigs
    /\ merged = Nil
    /\ ConfigIdle /\ QuoteIdle /\ HooksIdle /\ ExecIdle /\ RootIdle /\ ParseIdle /\ ValidateIdle
    /\ CmdIdle /\ FlattenIdle /\ StatusIdle /\ DefaultIdle /\ AddIdle /\ RaceIdle /\ ExitIdle

\* merged := MergeConfig(base, override); the arguments are only read
CallMergeConfig ==
    /\ merged = Nil
    /\ merged' = MergeConfig(base, override)
    /\ UNCHANGED <<base, override, notMerge>>

\* the caller drops the result and may merge again
DropMerged ==
    /\ merged # Nil
    /\ merged' = Nil
    /\ UNCHANGED <<base, override, notMerge>>

NextMerge == CallMergeConfig \/ DropMerged

SpecMerge == InitMerge /\ [][NextMerge]_vars

(***************************************************************************)
(* Properties of the configuration resolver                                *)
(***************************************************************************)
RepoPath == GetRepoConfigPath(RepoRoot)

\* what the file at path sets: its decoded fields, nothing when it is not
\* a readable well-formed file
Decoded(path) == IF fs[path].kind = "ok" THEN fs[path].cfg ELSE ZeroConfig

NonZero(f, v) ==
    CASE f \in StringFields -> v # ""
      [] f \in IntFields -> v # 0
      [] f \in ListFields -> v # <<>>

RepoSets(f) == projectRoot # "" /\ NonZero(f, Decoded(RepoPath)[f])
GlobalSets(f) == NonZero(f, Decoded(GlobalPath)[f])

\* repository > global > defaults
ByPrecedence(f) ==
    IF RepoSets(f) THEN Decoded(RepoPath)[f]
    ELSE IF GlobalSets(f) THEN Decoded(GlobalPath)[f]
    ELSE DefaultConfig[f]

MissingOrOk(path) == fs[path].kind \in {"missing", "ok"}

\* C1: with both files missing or well-formed, LoadWithRepo succeeds and
\* every field (strings, timeouts, hook lists) holds the repository file's
\* value if projectRoot is not empty and that value is non-zero, else the
\* global file's value if non-zero, else the default.
C1_LoadWithRepoPrecedence ==
    (lwr.called /\ MissingOrOk(GlobalPath) /\ MissingOrOk(RepoPath)) =>
        /\ lwr.res.err = "nil"
        /\ \A f \in ConfigFields : lwr.res.cfg[f] = ByPrecedence(f)

\* a repository with both files well-formed, one field set by both layers,
\* one only by the global file, resolved by LoadWithRepo
C1_Witness ==
    /\ lwr.called
    /\ projectRoot = RepoRoot
    /\ fs[GlobalPath].kind = "ok" /\ fs[RepoPath].kind = "ok"
    /\ \E f \in ConfigFields : RepoSets(f) /\ GlobalSets(f)
    /\ \E f \in ConfigFields : ~RepoSets(f) /\ GlobalSets(f)

SourceByPrecedence(f) ==
    IF RepoSets(f) THEN GetRepoConfigPath(projectRoot)
    ELSE IF GlobalSets(f) THEN GlobalPath
    ELSE "default"

\* the value the layer named by a source map entry holds for field f
LayerValue(src, f) ==
    IF src = "default" THEN DefaultConfig[f] ELSE Decoded(src)[f]

\* C2: when LoadEffective succeeds the keys of its source map are exactly
\* the seven scalar field names, each entry is the repository path if the
\* repository file set the field, else the global path if the global file
\* did, else "default", and the effective value is the named layer's value.
C2_SourceMap ==
    (le.called /\ le.res.err = "nil") =>
        /\ DOMAIN le.res.sources =
            {"worktree_root", "default_remote", "default_base_branch",
             "branch_template", "git_timeout", "git_long_timeout", "hook_timeout"}
        /\ \A f \in ScalarFields :
            /\ le.res.sources[TomlName(f)] = SourceByPrecedence(f)
            /\ le.res.cfg[f] = LayerValue(le.res.sources[TomlName(f)], f)

\* LoadEffective succeeded on a repository where the three kinds of entry
\* occur, one of them for a field both files set, and a hook list is set
C2_Witness ==
    /\ le.called /\ le.res.err = "nil"
    /\ \E f \in ScalarFields :
        RepoSets(f) /\ GlobalSets(f) /\ le.res.sources[TomlName(f)] = RepoPath
    /\ \E f \in IntFields : le.res.sources[TomlName(f)] = GlobalPath
    /\ \E f \in ScalarFields : le.res.sources[TomlName(f)] = "default"

\* C3: MergeConfig(base, override) holds in every field override's value
\* when that is a non-empty string / non-zero integer / non-empty list and
\* base's value otherwise, and leaves base and override as they were.
C3_MergeConfig ==
    /\ [](merged # Nil =>
            \A f \in ConfigFields :
                merged[f] = IF NonZero(f, override[f]) THEN override[f] ELSE base[f])
    /\ [][base' = base /\ override' = override]_mergeVars

\* a merge where override replaces a field base had set to something else
\* and leaves another field of base alone
C3_Witness ==
    /\ merged # Nil
    /\ \E f \in ConfigFields :
        NonZero(f, override[f]) /\ NonZero(f, base[f]) /\ override[f] # base[f]
    /\ \E f \in ConfigFields : ~NonZero(f, override[f]) /\ NonZero(f, base[f])

\* C4: LoadEffective and LoadWithRepo fail together and, when they succeed,
\* return equal Config values, whatever the state of the two files.
C4_SameResolution ==
    (lwr.called /\ le.called) =>
        /\ (lwr.res.err = "nil") <=> (le.res.err = "nil")
        /\ lwr.res.err = "nil" => lwr.res.cfg = le.res.cfg

Malformed(path) == fs[path].kind = "malformed"
Missing(path) == fs[path].kind = "missing"
SomeLayerMalformed == Malformed(GlobalPath) \/ (projectRoot # "" /\ Malformed(RepoPath))
RepoLayerQuiet == projectRoot = "" \/ MissingOrOk(RepoPath)

\* C5: a malformed file at either layer makes LoadWithRepo and LoadEffective
\* fail with no Config and no source map, whatever the other layer holds; a
\* missing file is no error and gives the result nothing.
C5_MalformedAborts ==
    /\ (lwr.called /\ SomeLayerMalformed) =>
            lwr.res.err # "nil" /\ lwr.res.cfg = Nil
    /\ (le.called /\ SomeLayerMalformed) =>
            le.res.err # "nil" /\ le.res.cfg = Nil /\ le.res.sources = NilSources
    /\ (lwr.called /\ MissingOrOk(GlobalPath) /\ RepoLayerQuiet
            /\ (Missing(GlobalPath) \/ (projectRoot # "" /\ Missing(RepoPath)))) =>
            /\ lwr.res.err = "nil"
            /\ \A f \in ConfigFields : lwr.res.cfg[f] = ByPrecedence(f)
    /\ (le.called /\ MissingOrOk(GlobalPath) /\ RepoLayerQuiet
            /\ (Missing(GlobalPath) \/ (projectRoot # "" /\ Missing(RepoPath)))) =>
            /\ le.res.err = "nil"
            /\ \A f \in ConfigFields : le.res.cfg[f] = ByPrecedence(f)
            /\ Missing(GlobalPath) => \A n \in ScalarNames : le.res.sources[n] # GlobalPath
            /\ Missing(RepoPath) => \A n \in ScalarNames : le.res.sources[n] # RepoPath

\* both functions were called on a repository whose repository file is
\* malformed while the global file is well-formed and sets a field
C5_Witness ==
    /\ lwr.called /\ le.called
    /\ projectRoot = RepoRoot
    /\ Malformed(RepoPath)
    /\ fs[GlobalPath].kind = "ok" /\ \E f \in ConfigFields : GlobalSets(f)
    /\ lwr.res.err # "nil" /\ le.res.err # "nil"

(***************************************************************************)
(* internal/hooks: strings                                                 *)
(*                                                                         *)
(* A string is a sequence of tokens.  A token is one character, or one of  *)
(* the four placeholders: a placeholder opens with "{{." and closes with   *)
(* "}}", no text that is substituted for one begins or ends with part of   *)
(* another (it is wrapped in single quotes), so strings.ReplaceAll on a    *)
(* placeholder never matches across a token boundary.                      *)
(***************************************************************************)
PPath == "{{.Path}}"
PBranch == "{{.Branch}}"
PProjectRoot == "{{.ProjectRoot}}"
PDefaultBranch == "{{.DefaultBranch}}"
Placeholders == {PPath, PBranch, PProjectRoot, PDefaultBranch}

SeqsUpTo(alphabet, n) == UNION {[1..k -> alphabet] : k \in 0..n}

RECURSIVE ReplaceAll(_, _, _)
\* strings.ReplaceAll(s, old, new) for a one-token old
ReplaceAll(s, old, new) ==
    IF s = <<>> THEN <<>>
    ELSE (IF Head(s) = old THEN new ELSE <<Head(s)>>) \o ReplaceAll(Tail(s), old, new)

\* shellQuote: ' becomes '\'' and the whole is wrapped in single quotes
shellQuote(s) == <<"'">> \o ReplaceAll(s, "'", <<"'", "\\", "'", "'">>) \o <<"'">>

\* the replacements map of expandTemplates
Replacement(ph, ctx) ==
    CASE ph = PPath -> shellQuote(ctx.Path)
      [] ph = PBranch -> shellQuote(ctx.Branch)
      [] ph = PProjectRoot -> shellQuote(ctx.ProjectRoot)
      [] ph = PDefaultBranch -> shellQuote(ctx.DefaultBranch)

\* the orders in which "for placeholder, value := range replacements" can
\* visit the four keys: Go leaves the iteration order of a map unspecified
Orders == {o \in [1..4 -> Placeholders] : \A i, j \in 1..4 : o[i] = o[j] => i = j}

\* the loop of expandTemplates visiting the keys in the given order
expandTemplatesIn(order, s, ctx) ==
    LET s1 == ReplaceAll(s, order[1], Replacement(order[1], ctx))
        s2 == ReplaceAll(s1, order[2], Replacement(order[2], ctx))
        s3 == ReplaceAll(s2, order[3], Replacement(order[3], ctx))
    IN ReplaceAll(s3, order[4], Replacement(order[4], ctx))

\* expandTemplates: the strings a call can return
expandTemplates(s, ctx) == {expandTemplatesIn(o, s, ctx) : o \in Orders}

\* FlattenBranchName with strings.Replace(branch, "/", "-", 1)
FlattenBranchName_First(branch) ==
    IF \E k \in 1..Len(branch) : branch[k] = "/"
    THEN LET k == CHOOSE j \in 1..Len(branch) :
                      branch[j] = "/" /\ \A h \in 1..(j - 1) : branch[h] # "/"
         IN  SubSeq(branch, 1, k - 1) \o <<"-">> \o SubSeq(branch, k + 1, Len(branch))
    ELSE branch

\* FlattenBranchName: every "/" becomes "-"
FlattenBranchName(branch) == ReplaceAll(branch, "/", <<"-">>)

\* the hooks.Context runNew and runClone build: Path is the worktree path
\* CreateWorktree returned, filepath.Join(projectRoot, flatten(branch))
NewContext(root, branch, defaultBranch) ==
    [Path |-> root \o <<"/">> \o FlattenBranchName(branch), Branch |-> branch,
     ProjectRoot |-> root, DefaultBranch |-> defaultBranch]

(***************************************************************************)
(* How sh -c reads a command string (POSIX shell quoting, section 2.2):    *)
(* outside quotes a backslash makes the next character literal, a single   *)
(* quote opens a region that runs to the next single quote and in which    *)
(* every character is literal, blanks separate words, and ; $ and the      *)
(* backquote are operators, expansions and substitutions.                  *)
(***************************************************************************)
\* the token of the backquote character
Backquote == "BACKQUOTE"
ShellActive == {";", "$", Backquote}

RECURSIVE ShellScan(_, _, _, _, _, _, _)
\* words: the literal words read so far; cur/inWord: the word being read;
\* active: an unquoted operator or expansion was met
ShellScan(s, i, quoted, cur, inWord, words, active) ==
    IF i > Len(s)
    THEN [words |-> IF inWord THEN Append(words, cur) ELSE words,
          active |-> active, open |-> quoted]
    ELSE IF quoted
    THEN IF s[i] = "'"
         THEN ShellScan(s, i + 1, FALSE, cur, TRUE, words, active)
         ELSE ShellScan(s, i + 1, TRUE, Append(cur, s[i]), TRUE, words, active)
    ELSE IF s[i] = "'"
    THEN ShellScan(s, i + 1, TRUE, cur, TRUE, words, active)
    ELSE IF s[i] = "\\" /\ i < Len(s)
    THEN ShellScan(s, i + 2, FALSE, Append(cur, s[i + 1]), TRUE, words, active)
    ELSE IF s[i] = " "
    THEN ShellScan(s, i + 1, FALSE, <<>>, FALSE,
                   IF inWord THEN Append(words, cur) ELSE words, active)
    ELSE IF s[i] \in ShellActive
    THEN ShellScan(s, i + 1, FALSE, <<>>, FALSE,
                   IF inWord THEN Append(words, cur) ELSE words, TRUE)
    ELSE ShellScan(s, i + 1, FALSE, Append(cur, s[i]), TRUE, words, active)

ShellRead(s) == ShellScan(s, 1, FALSE, <<>>, FALSE, <<>>, FALSE)

(***************************************************************************)
(* Specification of expandTemplates                                        *)
(***************************************************************************)
\* branch names pass ValidateBranchName with ' ; { } in them
ValueAlphabet == {"a", "'", ";", PPath, PBranch}
ContextValues == SeqsUpTo(ValueAlphabet, MaxValueLen)
RootValues == {<<"r">>, <<"r", "'">>, <<"$", Backquote>>}
CmdAlphabet == {"e", " ", PPath, PBranch, PProjectRoot, PDefaultBranch}
CommandStrings == SeqsUpTo(CmdAlphabet, MaxCmdLen)

InitQuote ==
    /\ qcmd \in CommandStrings
    /\ \E root \in RootValues, branch \in ContextValues \ {<<>>} :
        \E defaultBranch \in {<<"m">>, branch} :
            qctx = NewContext(root, branch, defaultBranch)
    /\ qpc = "start"
    /\ qout = <<>>
    /\ qread = NothingRead
    /\ ConfigIdle /\ MergeIdle /\ HooksIdle /\ ExecIdle /\ RootIdle /\ ParseIdle /\ ValidateIdle
    /\ CmdIdle /\ FlattenIdle /\ StatusIdle /\ DefaultIdle /\ AddIdle /\ RaceIdle /\ ExitIdle

\* cmdStr = expandTemplates(cmdStr, ctx)
CallExpandTemplates ==
    /\ qpc = "start"
    /\ qout' \in expandTemplates(qcmd, qctx)
    /\ qpc' = "expanded"
    /\ UNCHANGED <<qcmd, qctx, qread, notQuote>>

\* exec.CommandContext(execCtx, "sh", "-c", cmdStr): the shell reads cmdStr
ShellReadsCommand ==
    /\ qpc = "expanded"
    /\ qread' = ShellRead(qout)
    /\ qpc' = "read"
    /\ UNCHANGED <<qcmd, qctx, qout, notQuote>>

NextQuote == CallExpandTemplates \/ ShellReadsCommand

SpecQuote == InitQuote /\ [][NextQuote]_vars

(***************************************************************************)
(* Properties of shellQuote and expandTemplates                            *)
(***************************************************************************)
ContextValuesOf(ctx) == {ctx.Path, ctx.Branch, ctx.ProjectRoot, ctx.DefaultBranch}

\* sh reads s as the single literal word v and runs nothing of it
ReadsAsWord(s, v) == ShellRead(s) = [words |-> <<v>>, active |-> FALSE, open |-> FALSE]

RECURSIVE Simultaneous(_, _)
\* every placeholder of s replaced, in one pass, by the quoted context
\* value, the rest of s unchanged
Simultaneous(s, ctx) ==
    IF s = <<>> THEN <<>>
    ELSE (IF Head(s) \in Placeholders THEN Replacement(Head(s), ctx) ELSE <<Head(s)>>)
            \o Simultaneous(Tail(s), ctx)

\* shellQuote wraps a value so that sh recovers exactly the value as one
\* literal word, whatever quotes, blanks and operators it holds
ShellQuoteRoundTrip == \A v \in ContextValuesOf(qctx) : ReadsAsWord(shellQuote(v), v)

\* C7: for every context value v, sh reads shellQuote(v) as the one literal
\* word v, and expandTemplates replaces each of the four placeholders of the
\* command by shellQuote of the matching context value and leaves the rest
\* of the command unchanged.
C7_QuoteAndExpand ==
    /\ ShellQuoteRoundTrip
    /\ qpc # "start" => qout = Simultaneous(qcmd, qctx)

(***************************************************************************)
(* internal/hooks: RunWithTimeout                                          *)
(*                                                                         *)
(* hprocs lists the process groups the call has created, one per spawned   *)
(* shell: setPlatformAttrs (unix) sets Setpgid, so every sh -c leads a     *)
(* group of its own and the processes it forks stay in that group.         *)
(* The deadline of a positive timeout is whole seconds away: it can pass   *)
(* while the shell runs, not during the statements around cmd.Run().       *)
(***************************************************************************)
DeadlineExceeded == "context deadline exceeded"
Canceled == "context canceled"
ExitStatus == "exit status 1"
SignalKilled == "signal: killed"

\* setPlatformAttrs on unix
setPlatformAttrs == [Setpgid |-> TRUE]

\* context.WithTimeout(context.Background(), timeout): a deadline that is
\* not in the future gives a context that is done from the start
WithTimeout(timeoutSec) == IF timeoutSec <= 0 THEN DeadlineExceeded ELSE "nil"

\* cancel(): the first of deadline and cancel sets Err()
cancel(ctxErr) == IF ctxErr = "nil" THEN Canceled ELSE ctxErr

Warning(cmdStr, text) == cmdStr \o <<": ", text>>

\* lines 31-49, cmd.Run() with a live context: the shell is started
HookStart ==
    /\ hpc = "loop"
    /\ hi <= Len(hcommands)
    /\ WithTimeout(htimeout) = "nil"
    /\ hcmdStr' \in expandTemplates(hcommands[hi], hctx)
    /\ hprocs' = Append(hprocs, [cmd |-> hi, cmdStr |-> hcmdStr', shell |-> "running",
                                 children |-> 0, pgid |-> setPlatformAttrs.Setpgid])
    /\ hctxErr' = "nil"
    /\ hrunErr' = "nil"
    /\ hpc' = "running"
    /\ UNCHANGED <<hcommands, hctx, htimeout, hi, hwarnings, notHooks>>

\* lines 31-49, cmd.Run() with a context that is already done: Start
\* returns the context's error and no process is created
HookStartRefused ==
    /\ hpc = "loop"
    /\ hi <= Len(hcommands)
    /\ WithTimeout(htimeout) # "nil"
    /\ hcmdStr' \in expandTemplates(hcommands[hi], hctx)
    /\ hctxErr' = WithTimeout(htimeout)
    /\ hrunErr' = WithTimeout(htimeout)
    /\ hpc' = "returned"
    /\ UNCHANGED <<hcommands, hctx, htimeout, hi, hprocs, hwarnings, notHooks>>

\* the running shell forks a child, which joins the shell's process group
ShellForks ==
    /\ hpc = "running"
    /\ hprocs[hi].children < MaxChildren
    /\ hprocs' = [hprocs EXCEPT ![hi].children = @ + 1]
    /\ UNCHANGED <<hcommands, hctx, htimeout, hpc, hi, hcmdStr, hctxErr, hrunErr, hwarnings, notHooks>>

\* a child of some group exits by itself
ChildExits ==
    /\ \E k \in 1..Len(hprocs) :
        /\ hprocs[k].children > 0
        /\ hprocs' = [hprocs EXCEPT ![k].children = @ - 1]
    /\ UNCHANGED <<hcommands, hctx, htimeout, hpc, hi, hcmdStr, hctxErr, hrunErr, hwarnings, notHooks>>

\* the shell exits by itself before the deadline and cmd.Run() returns:
\* stdout and stderr are os.Stdout and os.Stderr, Wait has no pipe to drain
ShellExits ==
    /\ hpc = "running"
    /\ \E code \in {0, 1} :
        /\ hprocs' = [hprocs EXCEPT ![hi].shell = IF code = 0 THEN "exited0" ELSE "exitedN"]
        /\ hrunErr' = IF code = 0 THEN "nil" ELSE ExitStatus
    /\ hpc' = "returned"
    /\ UNCHANGED <<hcommands, hctx, htimeout, hi, hcmdStr, hctxErr, hwarnings, notHooks>>

\* the deadline passes while the shell runs: exec.CommandContext kills the
\* shell (cmd.Cancel is the default, os.Process.Kill on the shell's pid)
\* and cmd.Run() returns the wait status
DeadlineFires ==
    /\ hpc = "running"
    /\ hctxErr' = DeadlineExceeded
    /\ hprocs' = [hprocs EXCEPT ![hi].shell = "killed"]
    /\ hrunErr' = SignalKilled
    /\ hpc' = "returned"
    /\ UNCHANGED <<hcommands, hctx, htimeout, hi, hcmdStr, hwarnings, notHooks>>

HookCheck_ShortCircuit ==
    /\ hpc = "returned"
    /\ hctxErr' = cancel(hctxErr)
    /\ hwarnings' = IF hrunErr # "nil"
                    THEN Append(hwarnings, Warning(hcmdStr, hctxErr'))
                    ELSE hwarnings
    /\ hi' = IF hrunErr # "nil" THEN Len(hcommands) + 1 ELSE hi + 1
    /\ hpc' = "loop"
    /\ UNCHANGED <<hcommands, hctx, htimeout, hcmdStr, hrunErr, hprocs, notHooks>>

HookCheck_AlwaysDeadline ==
    /\ hpc = "returned"
    /\ hctxErr' = cancel(hctxErr)
    /\ hwarnings' =
        IF hrunErr # "nil"
        THEN Append(hwarnings, Warning(hcmdStr, DeadlineExceeded))
        ELSE hwarnings
    /\ hi' = hi + 1
    /\ hpc' = "loop"
    /\ UNCHANGED <<hcommands, hctx, htimeout, hcmdStr, hrunErr, hprocs, notHooks>>

\* lines 50-59: cancel(), then a warning when err is not nil: the
\* context's error when execCtx.Err() is not nil, else err.Error()
HookCheck ==
    /\ hpc = "returned"
    /\ hctxErr' = cancel(hctxErr)
    /\ hwarnings' =
        IF hrunErr # "nil"
        THEN IF hctxErr' # "nil"
             THEN Append(hwarnings, Warning(hcmdStr, hctxErr'))
             ELSE Append(hwarnings, Warning(hcmdStr, hrunErr))
        ELSE hwarnings
    /\ hi' = hi + 1
    /\ hpc' = "loop"
    /\ UNCHANGED <<hcommands, hctx, htimeout, hcmdStr, hrunErr, hprocs, notHooks>>

\* line 62: return warnings
HookReturn ==
    /\ hpc = "loop"
    /\ hi > Len(hcommands)
    /\ hpc' = "done"
    /\ UNCHANGED <<hcommands, hctx, htimeout, hi, hcmdStr, hctxErr, hrunErr, hprocs, hwarnings,
                   notHooks>>

(***************************************************************************)
(* Specification of the hook runner                                        *)
(***************************************************************************)
HookCommands == {<<"f">>, <<"e", " ", PPath>>}
HookContext == NewContext(<<"r">>, <<"b">>, <<"m">>)
TimeoutSecs == {-1, 0, 1, 30}

InitHooks ==
    /\ hcommands \in SeqsUpTo(HookCommands, MaxCommands)
    /\ hctx = HookContext
    /\ htimeout \in TimeoutSecs
    /\ hpc = "loop"
    /\ hi = 1
    /\ hcmdStr = <<>>
    /\ hctxErr = "nil"
    /\ hrunErr = "nil"
    /\ hprocs = <<>>
    /\ hwarnings = <<>>
    /\ ConfigIdle /\ MergeIdle /\ QuoteIdle /\ ExecIdle /\ RootIdle /\ ParseIdle /\ ValidateIdle
    /\ CmdIdle /\ FlattenIdle /\ StatusIdle /\ DefaultIdle /\ AddIdle /\ RaceIdle /\ ExitIdle

NextHooks ==
    \/ HookStart
    \/ HookStartRefused
    \/ ShellForks
    \/ ChildExits
    \/ ShellExits
    \/ DeadlineFires
    \/ HookCheck
    \/ HookReturn

SpecHooks == InitHooks /\ [][NextHooks]_vars

(***************************************************************************)
(* Properties of the hook runner                                           *)
(***************************************************************************)
Failed(p) == p.shell \in {"exitedN", "killed"}

RECURSIVE FailedProcs(_)
\* the process groups whose shell failed or was killed, in start order
FailedProcs(procs) ==
    IF procs = <<>> THEN <<>>
    ELSE (IF Failed(Head(procs)) THEN <<Head(procs)>> ELSE <<>>) \o FailedProcs(Tail(procs))

\* the command string a warning was made of
WarnedCmd(w) == SubSeq(w, 1, Len(w) - 2)

\* C6: with a positive timeout RunWithTimeout starts every command exactly
\* once in list order, the next one only after the previous shell has
\* finished or been killed and whether or not it failed, and returns one
\* warning per failed or timed-out command, in command order.
C6_SequentialNoShortCircuit ==
    htimeout > 0 =>
        /\ \A k \in 1..Len(hprocs) :
            /\ hprocs[k].cmd = k
            /\ hprocs[k].cmdStr \in expandTemplates(hcommands[k], hctx)
            /\ hprocs[k].shell = "running" => k = Len(hprocs) /\ hpc = "running"
        /\ Len(hprocs) <= Len(hcommands)
        /\ hpc = "done" =>
            /\ Len(hprocs) = Len(hcommands)
            /\ Len(hwarnings) = Len(FailedProcs(hprocs))
            /\ \A k \in 1..Len(hwarnings) :
                WarnedCmd(hwarnings[k]) = FailedProcs(hprocs)[k].cmdStr

\* a finished run in which a command failed, a later one was still started
\* and succeeded, and one warning came back
C6_Witness ==
    /\ htimeout > 0
    /\ hpc = "done"
    /\ Len(hcommands) = MaxCommands
    /\ hprocs[1].shell = "exitedN"
    /\ hprocs[Len(hprocs)].shell = "exited0"
    /\ Len(hwarnings) = 1

HasDeadlineMarker(w) == w[Len(w)] = DeadlineExceeded

MovedPast(k) == hpc = "done" \/ hi > k

\* C9: once RunWithTimeout has moved past a command that exceeded its
\* timeout, no process of that command's process group is still running.
C9_ProcessGroupKilled ==
    \A k \in 1..Len(hprocs) :
        (hprocs[k].shell = "killed" /\ hprocs[k].pgid /\ MovedPast(hprocs[k].cmd)) =>
            hprocs[k].children = 0

(***************************************************************************)
(* internal/git: the command executor                                      *)
(*                                                                         *)
(* RunInDirWithTimeout -> RunInDirWithContext captures git's output in     *)
(* two bytes.Buffer, which os/exec feeds from pipes: cmd.Run() returns     *)
(* when git has exited and the pipes are drained, and a descendant of git  *)
(* that inherited them holds them open until it exits or until WaitDelay   *)
(* (5s, counted from git's exit or from the deadline) has run out.         *)
(* RunWithProgressAndTimeout hands git os.Stdout and os.Stderr: no pipes,  *)
(* cmd.Run() returns when git has exited.                                  *)
(***************************************************************************)
ErrWaitDelay == "exec: WaitDelay expired before I/O complete"

Blank == {" ", "\n"}

RECURSIVE TrimLeft(_)
TrimLeft(s) == IF s # <<>> /\ Head(s) \in Blank THEN TrimLeft(Tail(s)) ELSE s

RECURSIVE TrimRight(_)
TrimRight(s) ==
    IF s # <<>> /\ s[Len(s)] \in Blank THEN TrimRight(SubSeq(s, 1, Len(s) - 1)) ELSE s

\* strings.TrimSpace
TrimSpace(s) == TrimRight(TrimLeft(s))

RECURSIVE Join(_, _)
\* strings.Join(elems, sep)
Join(elems, sep) ==
    IF elems = <<>> THEN <<>>
    ELSE IF Len(elems) = 1 THEN <<elems[1]>>
    ELSE <<elems[1], sep>> \o Join(Tail(elems), sep)

\* git has exited or been killed; in the capture variant cmd.Run() goes on
\* draining the pipes while a descendant holds them
AfterExit == IF xvariant = "capture" /\ xheld THEN "draining" ELSE "returned"

\* cmd.Run() with a live context: git is started
ExecStart ==
    /\ xpc = "call"
    /\ WithTimeout(xtimeout) = "nil"
    /\ xproc' = "running"
    /\ xpc' = "running"
    /\ UNCHANGED <<xvariant, xtimeout, xargs, xctxErr, xrunErr, xheld, xstdout, xstderr,
                   xresult, notExec>>

\* cmd.Run() with a context that is already done: Start returns ctx.Err()
ExecStartRefused ==
    /\ xpc = "call"
    /\ WithTimeout(xtimeout) # "nil"
    /\ xctxErr' = WithTimeout(xtimeout)
    /\ xrunErr' = WithTimeout(xtimeout)
    /\ xpc' = "returned"
    /\ UNCHANGED <<xvariant, xtimeout, xargs, xproc, xheld, xstdout, xstderr, xresult,
                   notExec>>

\* git starts a helper that inherits its stdout and stderr
DescendantStarts ==
    /\ xpc = "running"
    /\ ~xheld
    /\ xheld' = TRUE
    /\ UNCHANGED <<xvariant, xtimeout, xargs, xpc, xctxErr, xrunErr, xproc, xstdout,
                   xstderr, xresult, notExec>>

\* the helper exits: the pipes close, a draining cmd.Run() returns
DescendantExits ==
    /\ xheld
    /\ xheld' = FALSE
    /\ xpc' = IF xpc = "draining" THEN "returned" ELSE xpc
    /\ UNCHANGED <<xvariant, xtimeout, xargs, xctxErr, xrunErr, xproc, xstdout, xstderr,
                   xresult, notExec>>

StdoutTexts == {<<>>, <<"o">>, <<" ", "o", " ", "p", "\n">>}
StderrTexts == {<<>>, <<"\n">>, <<"e", "\n">>}

\* git exits by itself before the deadline
GitExits ==
    /\ xpc = "running"
    /\ \E code \in {0, 1}, out \in StdoutTexts, err \in StderrTexts :
        /\ xproc' = IF code = 0 THEN "exited0" ELSE "exitedN"
        /\ xrunErr' = IF code = 0 THEN "nil" ELSE ExitStatus
        /\ xstdout' = out
        /\ xstderr' = err
    /\ xpc' = AfterExit
    /\ UNCHANGED <<xvariant, xtimeout, xargs, xctxErr, xheld, xresult, notExec>>

\* the deadline passes while git runs: exec.CommandContext kills it
ExecDeadlineFires ==
    /\ xpc = "running"
    /\ xctxErr' = DeadlineExceeded
    /\ xproc' = "killed"
    /\ xrunErr' = SignalKilled
    /\ \E out \in StdoutTexts, err \in StderrTexts :
        /\ xstdout' = out
        /\ xstderr' = err
    /\ xpc' = AfterExit
    /\ UNCHANGED <<xvariant, xtimeout, xargs, xheld, xresult, notExec>>

\* the deadline passes while cmd.Run() drains the pipes of a git that has
\* exited by itself: nothing is left to kill, ctx.Err() is set
DeadlineWhileDraining ==
    /\ xpc = "draining"
    /\ xctxErr = "nil"
    /\ xctxErr' = DeadlineExceeded
    /\ UNCHANGED <<xvariant, xtimeout, xargs, xpc, xrunErr, xproc, xheld, xstdout, xstderr,
                   xresult, notExec>>

\* cmd.Run() without WaitDelay: it returns only when the pipes are released
WaitDelayExpires_NoWaitDelay ==
    /\ xpc = "draining"
    /\ ~xheld
    /\ xrunErr' = xrunErr
    /\ xpc' = "returned"
    /\ UNCHANGED <<xvariant, xtimeout, xargs, xctxErr, xproc, xheld, xstdout, xstderr,
                   xresult, notExec>>

\* WaitDelay runs out: os/exec closes the pipes and cmd.Run() returns, with
\* ErrWaitDelay when git had exited with status 0
WaitDelayExpires ==
    /\ xpc = "draining"
    /\ xrunErr' = IF xrunErr = "nil" THEN ErrWaitDelay ELSE xrunErr
    /\ xpc' = "returned"
    /\ UNCHANGED <<xvariant, xtimeout, xargs, xctxErr, xproc, xheld, xstdout, xstderr,
                   xresult, notExec>>

TimeoutError(args, ctxErr) ==
    [kind |-> "timeout", out |-> <<>>,
     msg |-> <<"git ">> \o Join(args, " ") \o <<": ", ctxErr>>, wraps |-> ctxErr]

\* the code after cmd.Run(): part_002 lines 143-155 for the capture
\* variant, lines 186-194 for the progress variant
ExecClassify ==
    /\ xpc = "returned"
    /\ xresult' =
        IF xrunErr # "nil"
        THEN IF xctxErr # "nil"
             THEN TimeoutError(xargs, xctxErr)
             ELSE IF xvariant = "capture"
             THEN [kind |-> "failure", out |-> <<>>, wraps |-> "nil",
                   msg |-> <<"git ">> \o Join(xargs, " ") \o <<": ">> \o
                           (IF TrimSpace(xstderr) = <<>> THEN <<xrunErr>>
                            ELSE TrimSpace(xstderr))]
             ELSE [kind |-> "failure", out |-> <<>>, wraps |-> "nil",
                   msg |-> <<"git ">> \o Join(xargs, " ") \o <<" failed">>]
        ELSE [kind |-> "ok", msg |-> <<>>, wraps |-> "nil",
              out |-> IF xvariant = "capture" THEN TrimSpace(xstdout) ELSE <<>>]
    /\ xpc' = "done"
    /\ UNCHANGED <<xvariant, xtimeout, xargs, xctxErr, xrunErr, xproc, xheld, xstdout,
                   xstderr, notExec>>

(***************************************************************************)
(* Specification of the command executor                                   *)
(***************************************************************************)
ArgLists == {<<"status">>, <<"fetch", "origin">>}

InitExec ==
    /\ xvariant \in {"capture", "progress"}
    /\ xtimeout \in TimeoutSecs
    /\ xargs \in ArgLists
    /\ xpc = "call"
    /\ xctxErr = "nil"
    /\ xrunErr = "nil"
    /\ xproc = "none"
    /\ xheld = FALSE
    /\ xstdout = <<>>
    /\ xstderr = <<>>
    /\ xresult = NoResult
    /\ ConfigIdle /\ MergeIdle /\ QuoteIdle /\ HooksIdle /\ RootIdle /\ ParseIdle /\ ValidateIdle
    /\ CmdIdle /\ FlattenIdle /\ StatusIdle /\ DefaultIdle /\ AddIdle /\ RaceIdle /\ ExitIdle

NextExec ==
    \/ ExecStart
    \/ ExecStartRefused
    \/ DescendantStarts
    \/ DescendantExits
    \/ GitExits
    \/ ExecDeadlineFires
    \/ DeadlineWhileDraining
    \/ WaitDelayExpires
    \/ ExecClassify

SpecExec == InitExec /\ [][NextExec]_vars

(***************************************************************************)
(* Properties of the command executor                                      *)
(***************************************************************************)
\* the deadline elapsed before git completed: git was killed at the
\* deadline, or the deadline had passed before it could be started
DeadlineBeforeCompletion == xproc \in {"none", "killed"}

\* C10: the executor reports a timeout-kind error exactly when the deadline
\* elapsed before the process completed; a process that exited non-zero by
\* itself before the deadline gives an execution failure, which in the
\* capture variant carries the joined arguments and the trimmed stderr (the
\* process error text when stderr is empty); success returns the trimmed
\* stdout.
C10_ErrorKinds ==
    xpc = "done" =>
        /\ xresult.kind = "timeout" <=> DeadlineBeforeCompletion
        /\ xresult.kind = "timeout" => xresult.wraps = DeadlineExceeded
        /\ xproc = "exitedN" =>
            /\ xresult.kind = "failure"
            /\ xvariant = "capture" =>
                xresult.msg = <<"git ">> \o Join(xargs, " ") \o <<": ">> \o
                    (IF TrimSpace(xstderr) # <<>> THEN TrimSpace(xstderr) ELSE <<ExitStatus>>)
        /\ (xresult.kind = "ok" /\ xvariant = "capture") => xresult.out = TrimSpace(xstdout)

(***************************************************************************)
(* Termination of cmd.Run() in the executor and in the hook runner         *)
(*                                                                         *)
(* What the program and the runtime do by themselves is fair: starting the *)
(* child, the deadline timer of the context, the WaitDelay timer of        *)
(* os/exec and the statements after cmd.Run().  Nothing is assumed of the  *)
(* child and its descendants: they may run and hold the streams for ever.  *)
(***************************************************************************)
InitReturn == InitExec \/ InitHooks

NextReturn == NextExec \/ NextHooks

\* the steps of the executor and of its timers; at any point of a call at
\* most one of them is enabled
ExecProgress ==
    ExecStart \/ ExecStartRefused \/ ExecDeadlineFires \/ WaitDelayExpires \/ ExecClassify

\* of the hook runner only the deadline timer of a running command is
\* needed for a cmd.Run() to return
FairReturn == WF_vars(ExecProgress) /\ WF_vars(DeadlineFires)

SpecReturn == InitReturn /\ [][NextReturn]_vars /\ FairReturn

\* cmd.Run() of the executor has returned
ExecReturned == xpc \in {"returned", "done"}

\* no shell of the hook runner is alive outside its own cmd.Run()
ShellsReaped ==
    \A k \in 1..Len(hprocs) :
        hprocs[k].shell = "running" => (hpc = "running" /\ k = hi)

\* C11: every executor call returns to its caller and every cmd.Run() of
\* the hook runner returns, whether the child exits by itself or is killed
\* at the deadline and whether or not its descendants keep the output
\* streams open; once cmd.Run() has returned, the spawned child is no
\* longer running unwaited.
C11_AlwaysReturns ==
    /\ (xpc = "call") ~> (xpc = "done")
    /\ (hpc = "running") ~> (hpc = "returned")
    /\ [](ExecReturned => xproc # "running")
    /\ []ShellsReaped

\* a capture call that came back after git was killed at the deadline while
\* a descendant still holds the streams
C11_Witness ==
    /\ xpc = "done"
    /\ xvariant = "capture"
    /\ xproc = "killed"
    /\ xheld
    /\ xresult.kind = "timeout"

(***************************************************************************)
(* internal/git/bare.go: IsBareRepo, GetProjectRoot                        *)
(*                                                                         *)
(* A path is the sequence of its components; an absolute path starts at    *)
(* the filesystem root, which is the empty sequence.  rfs gives, for every *)
(* directory that exists, what os.Stat finds for its .bare and .git        *)
(* entries: "absent", "file", "dir", or "staterr" (os.Stat fails for       *)
(* another reason, such as a permission).                                  *)
(***************************************************************************)
\* the deepest directory of the model's tree, and the longest worktreePath
MaxDepth == 2
MaxStartLen == 2

BareDir == ".bare"
GitPointerFile == ".git"

NotInProject == "not in a git-wt project"
ResolveFailed == "failed to resolve path"
\* os.Getwd() fails: the working directory has been removed
Gone == [gone |-> TRUE, path |-> <<>>]

\* the directories of the tree: a chain below the root
Dirs == {[i \in 1..k |-> "a"] : k \in 0..MaxDepth}

\* os.Stat(filepath.Join(dir, name)): nothing is found below a directory
\* that does not exist
Stat(dir, name) ==
    LET kind == IF dir \in DOMAIN rfs THEN rfs[dir][name] ELSE "absent"
    IN [err |-> kind \in {"absent", "staterr"}, IsDir |-> kind = "dir"]

\* IsBareRepo taking .git for good whenever it exists
IsBareRepo_AnyGit(dir) ==
    IF Stat(dir, BareDir).err \/ ~Stat(dir, BareDir).IsDir THEN FALSE
    ELSE ~Stat(dir, GitPointerFile).err

\* IsBareRepo
IsBareRepo(dir) ==
    IF Stat(dir, BareDir).err \/ ~Stat(dir, BareDir).IsDir THEN FALSE
    ELSE IF Stat(dir, GitPointerFile).err THEN FALSE
    ELSE ~Stat(dir, GitPointerFile).IsDir

RECURSIVE Clean(_, _)
\* filepath.Clean of a rooted path: "." is dropped, ".." drops the
\* component before it and is itself dropped at the root
Clean(done, rest) ==
    IF rest = <<>> THEN done
    ELSE IF Head(rest) = "." THEN Clean(done, Tail(rest))
    ELSE IF Head(rest) = ".."
         THEN Clean(IF done = <<>> THEN <<>> ELSE SubSeq(done, 1, Len(done) - 1), Tail(rest))
    ELSE Clean(Append(done, Head(rest)), Tail(rest))

\* filepath.Abs: an absolute path is cleaned, a relative one is joined to
\* os.Getwd(), whose failure is returned
Abs(path) ==
    IF path.abs THEN [err |-> FALSE, path |-> Clean(<<>>, path.elems)]
    ELSE IF rcwd.gone THEN [err |-> TRUE, path |-> <<>>]
    ELSE [err |-> FALSE, path |-> Clean(<<>>, rcwd.path \o path.elems)]

\* filepath.Dir of a clean absolute path: the root is its own parent
Dir(dir) == IF dir = <<>> THEN <<>> ELSE SubSeq(dir, 1, Len(dir) - 1)

\* lines 79-83
RootResolve ==
    /\ rpc = "call"
    /\ IF Abs(rstart).err
       THEN /\ rresult' = [err |-> ResolveFailed, root |-> <<>>]
            /\ rpc' = "done"
            /\ rdir' = rdir
       ELSE /\ rdir' = Abs(rstart).path
            /\ rpc' = "walk"
            /\ rresult' = rresult
    /\ UNCHANGED <<rfs, rcwd, rstart, rvisited, notRoot>>

\* one turn of the loop, lines 85-98, and line 100 when it breaks
RootStep ==
    /\ rpc = "walk"
    /\ rvisited' = Append(rvisited, rdir)
    /\ IF IsBareRepo(rdir)
       THEN /\ rresult' = [err |-> "nil", root |-> rdir]
            /\ rpc' = "done"
            /\ rdir' = rdir
       ELSE IF Dir(rdir) = rdir
       THEN /\ rresult' = [err |-> NotInProject, root |-> <<>>]
            /\ rpc' = "done"
            /\ rdir' = rdir
       ELSE /\ rdir' = Dir(rdir)
            /\ rpc' = "walk"
            /\ rresult' = rresult
    /\ UNCHANGED <<rfs, rcwd, rstart, notRoot>>

(***************************************************************************)
(* Specification of the root discovery                                     *)
(***************************************************************************)
\* what a directory holds as .bare and .git
Layouts ==
    {[n \in {BareDir, GitPointerFile} |-> IF n = BareDir THEN l[1] ELSE l[2]] :
        l \in {<<"absent", "absent">>, <<"dir", "file">>, <<"dir", "dir">>,
               <<"file", "file">>, <<"dir", "absent">>, <<"dir", "staterr">>,
               <<"staterr", "file">>}}

StartElems == {"a", ".", ".."}

InitRoot ==
    /\ rfs \in [Dirs -> Layouts]
    /\ rcwd \in {[gone |-> FALSE, path |-> d] : d \in Dirs} \cup {Gone}
    /\ rstart \in [abs : BOOLEAN, elems : SeqsUpTo(StartElems, MaxStartLen)]
    /\ rstart.abs => rcwd.path = <<>>
    /\ rpc = "call"
    /\ rdir = <<>>
    /\ rvisited = <<>>
    /\ rresult = [err |-> "nil", root |-> <<>>]
    /\ ConfigIdle /\ MergeIdle /\ QuoteIdle /\ HooksIdle /\ ExecIdle /\ ParseIdle /\ ValidateIdle
    /\ CmdIdle /\ FlattenIdle /\ StatusIdle /\ DefaultIdle /\ AddIdle /\ RaceIdle /\ ExitIdle

NextRoot == RootResolve \/ RootStep

\* the call runs on: nothing but the function's own steps is needed
SpecRoot == InitRoot /\ [][NextRoot]_vars /\ WF_vars(NextRoot)

(***************************************************************************)
(* Properties of the root discovery                                        *)
(***************************************************************************)
\* the invariant of a project root: .bare is a directory and .git exists
\* and is not one
ValidRoot(dir) ==
    /\ dir \in DOMAIN rfs
    /\ rfs[dir][BareDir] = "dir"
    /\ rfs[dir][GitPointerFile] = "file"

\* a directory and its ancestors, up to the root
SelfAndAncestors(dir) == {SubSeq(dir, 1, k) : k \in 0..Len(dir)}

ValidAbove(dir) == {d \in SelfAndAncestors(dir) : ValidRoot(d)}

\* the call was made from a path that has an absolute form
Resolved == ~Abs(rstart).err

MaxLines == 5

RECURSIVE SplitFrom(_, _, _)
SplitFrom(s, sep, cur) ==
    IF s = <<>> THEN <<cur>>
    ELSE IF Head(s) = sep THEN <<cur>> \o SplitFrom(Tail(s), sep, <<>>)
    ELSE SplitFrom(Tail(s), sep, Append(cur, Head(s)))

\* strings.Split(s, sep) for a one-token sep
Split(s, sep) == SplitFrom(s, sep, <<>>)

\* strings.HasPrefix, strings.TrimPrefix
HasPrefix(s, prefix) == Len(s) >= Len(prefix) /\ SubSeq(s, 1, Len(prefix)) = prefix
TrimPrefix(s, prefix) == IF HasPrefix(s, prefix) THEN SubSeq(s, Len(prefix) + 1, Len(s)) ELSE s

WorktreeKey == <<"worktree", " ">>
HeadKey == <<"HEAD", " ">>
BranchKey == <<"branch", " ">>
RefsHeads == <<"refs/heads/">>

\* Worktree{}
ZeroWorktree == [Path |-> <<>>, Branch |-> <<>>, Commit |-> <<>>]

\* lines 87-95 without the reset: what a non-empty line does to current
ParseLine(line, current) ==
    IF HasPrefix(line, WorktreeKey) THEN [current EXCEPT !.Path = TrimPrefix(line, WorktreeKey)]
    ELSE IF HasPrefix(line, HeadKey) THEN [current EXCEPT !.Commit = TrimPrefix(line, HeadKey)]
    ELSE IF HasPrefix(line, BranchKey)
         THEN [current EXCEPT !.Branch = TrimPrefix(TrimPrefix(line, BranchKey), RefsHeads)]
    ELSE current

RECURSIVE ParseLoop(_, _, _)
\* the loop of lines 76-96
ParseLoop(lines, worktrees, current) ==
    IF lines = <<>> THEN [worktrees |-> worktrees, current |-> current]
    ELSE LET line == TrimSpace(Head(lines))
         IN IF line = <<>>
            THEN IF current.Path # <<>>
                 THEN ParseLoop(Tail(lines), Append(worktrees, current), ZeroWorktree)
                 ELSE ParseLoop(Tail(lines), worktrees, current)
            ELSE ParseLoop(Tail(lines), worktrees, ParseLine(line, current))

\* parseWorktreeList
parseWorktreeList(output) ==
    LET r == ParseLoop(Split(output, "\n"), <<>>, ZeroWorktree)
    IN IF r.current.Path # <<>> THEN Append(r.worktrees, r.current) ELSE r.worktrees

CallParseWorktreeList ==
    /\ ppc = "start"
    /\ pworktrees' = parseWorktreeList(pout)
    /\ ppc' = "done"
    /\ UNCHANGED <<pout, notParse>>

(***************************************************************************)
(* Specification of the listing parser                                     *)
(***************************************************************************)
\* the lines a listing of the model is made of: the empty line, two path
\* lines (the second for a directory whose name ends in a blank), a HEAD
\* line, two branch lines and the detached marker
ListingLines ==
    { <<>>,
      WorktreeKey \o <<"/", "p">>,
      WorktreeKey \o <<"/", "q", " ">>,
      HeadKey \o <<"c">>,
      BranchKey \o RefsHeads \o <<"f", "/", "x">>,
      BranchKey \o RefsHeads \o <<"m">>,
      <<"detached">> }

RECURSIVE JoinLines(_)
\* the lines, each but the last followed by a line end
JoinLines(lines) ==
    IF lines = <<>> THEN <<>>
    ELSE IF Len(lines) = 1 THEN lines[1]
    ELSE lines[1] \o <<"\n">> \o JoinLines(Tail(lines))

Listings == {JoinLines(ls) : ls \in SeqsUpTo(ListingLines, MaxLines)}

InitParse ==
    /\ pout \in Listings
    /\ ppc = "start"
    /\ pworktrees = <<>>
    /\ ConfigIdle /\ MergeIdle /\ QuoteIdle /\ HooksIdle /\ ExecIdle /\ RootIdle /\ ValidateIdle
    /\ CmdIdle /\ FlattenIdle /\ StatusIdle /\ DefaultIdle /\ AddIdle /\ RaceIdle /\ ExitIdle

NextParse == CallParseWorktreeList

SpecParse == InitParse /\ [][NextParse]_vars

(***************************************************************************)
(* Properties of the listing parser                                        *)
(***************************************************************************)
RECURSIVE RecordsFrom(_, _)
\* the records of a listing: the maximal runs of lines that are not empty
RecordsFrom(lines, cur) ==
    IF lines = <<>> THEN (IF cur = <<>> THEN <<>> ELSE <<cur>>)
    ELSE IF Head(lines) = <<>>
         THEN (IF cur = <<>> THEN <<>> ELSE <<cur>>) \o RecordsFrom(Tail(lines), <<>>)
    ELSE RecordsFrom(Tail(lines), Append(cur, Head(lines)))

Records == RecordsFrom(Split(pout, "\n"), <<>>)

\* the lines of a record that start with the key
LinesWith(rec, key) == {k \in 1..Len(rec) : HasPrefix(rec[k], key)}

\* the text after the key on the record's line of that key, empty when the
\* record has no such line
TextAfter(rec, key) ==
    IF LinesWith(rec, key) = {} THEN <<>>
    ELSE LET k == CHOOSE k \in LinesWith(rec, key) : TRUE
         IN SubSeq(rec[k], Len(key) + 1, Len(rec[k]))

\* a record as git writes it: one path line, at most one HEAD line and at
\* most one branch line
OneOfEach(rec) ==
    /\ Cardinality(LinesWith(rec, WorktreeKey)) = 1
    /\ Cardinality(LinesWith(rec, HeadKey)) <= 1
    /\ Cardinality(LinesWith(rec, BranchKey)) <= 1

\* a record without a path line, with at most one HEAD and one branch line
Pathless(rec) ==
    /\ LinesWith(rec, WorktreeKey) = {}
    /\ Cardinality(LinesWith(rec, HeadKey)) <= 1
    /\ Cardinality(LinesWith(rec, BranchKey)) <= 1

\* the branch text with the leading refs/heads/ removed, nothing else changed
ShortBranch(text) ==
    IF Len(text) >= 1 /\ text[1] = "refs/heads/" THEN Tail(text) ELSE text

\* the entry the record stands for
EntryOf(rec) ==
    [Path |-> TextAfter(rec, WorktreeKey),
     Commit |-> TextAfter(rec, HeadKey),
     Branch |-> ShortBranch(TextAfter(rec, BranchKey))]

\* the entry with the white space around each field dropped
TrimmedEntryOf(rec) ==
    [Path |-> TrimSpace(TextAfter(rec, WorktreeKey)),
     Commit |-> TrimSpace(TextAfter(rec, HeadKey)),
     Branch |-> ShortBranch(TrimSpace(TextAfter(rec, BranchKey)))]

RECURSIVE WithPath(_)
\* the records that hold a path line, in order
WithPath(recs) ==
    IF recs = <<>> THEN <<>>
    ELSE (IF OneOfEach(Head(recs)) THEN <<Head(recs)>> ELSE <<>>) \o WithPath(Tail(recs))

\* C13: for a listing whose records each hold a path line, the parser
\* returns one entry per record, in input order, with Path the text after
\* "worktree ", Commit the text after "HEAD " (empty without a HEAD line)
\* and Branch the text of the branch line less its leading refs/heads/,
\* every "/" of the name kept (empty without a branch line); the empty
\* listing gives the empty sequence.
C13_OneEntryPerRecord ==
    (ppc = "done" /\ \A k \in 1..Len(Records) : OneOfEach(Records[k])) =>
        pworktrees = [k \in 1..Len(Records) |-> EntryOf(Records[k])]

\* the same with the fields taken from the trimmed lines
ParsesTrimmedRecords ==
    (ppc = "done" /\ \A k \in 1..Len(Records) : OneOfEach(Records[k])) =>
        pworktrees = [k \in 1..Len(Records) |-> TrimmedEntryOf(Records[k])]

\* C14: a record without a path line gives no entry and none of its fields
\* shows in an entry: the entries are those of the records that hold a path
\* line, each made of the lines of its own record only.
C14_PathlessDiscarded ==
    (ppc = "done" /\ \A k \in 1..Len(Records) : OneOfEach(Records[k]) \/ Pathless(Records[k])) =>
        pworktrees = LET kept == WithPath(Records)
                     IN [k \in 1..Len(kept) |-> TrimmedEntryOf(kept[k])]

(***************************************************************************)
(* internal/git/validate.go: ValidateProjectName, ValidateBranchName       *)
(*                                                                         *)
(* A name is the sequence of its characters; "lock", "git", "bare" and "a" *)
(* stand for runs of letters.                                              *)
(***************************************************************************)
\* the longest name given to a validator, in tokens
MaxNameLen == 4

\* strings.Contains, strings.HasSuffix
Contains(s, sub) ==
    \E k \in 1..(Len(s) - Len(sub) + 1) : SubSeq(s, k, k + Len(sub) - 1) = sub
HasSuffix(s, suffix) ==
    Len(s) >= Len(suffix) /\ SubSeq(s, Len(s) - Len(suffix) + 1, Len(s)) = suffix

\* ValidateProjectName without the reserved names
ValidateProjectName_NoReserved(name) ==
    IF name = <<>> THEN "project name cannot be empty"
    ELSE IF Contains(name, <<"/">>) \/ Contains(name, <<"\\">>)
         THEN "project name cannot contain path separators"
    ELSE IF Contains(name, <<".", ".">>) THEN "project name cannot contain '..'"
    ELSE IF name = <<".">> \/ name = <<".", ".">> THEN "invalid project name"
    ELSE "nil"

\* ValidateProjectName
ValidateProjectName(name) ==
    IF name = <<>> THEN "project name cannot be empty"
    ELSE IF Contains(name, <<"/">>) \/ Contains(name, <<"\\">>)
         THEN "project name cannot contain path separators"
    ELSE IF Contains(name, <<".", ".">>) THEN "project name cannot contain '..'"
    ELSE IF name = <<".">> \/ name = <<".", ".">> THEN "invalid project name"
    ELSE IF name = <<".", "git">> \/ name = <<".", "bare">> THEN "reserved project name"
    ELSE "nil"

\* invalidPatterns, in the order of the list
invalidPatterns ==
    << <<".", ".">>, <<"~">>, <<"^">>, <<":">>, <<"\\">>, <<" ">>, <<"?">>, <<"*">>, <<"[">>,
       <<"@", "{">>, <<".", "lock">> >>

\* ValidateBranchName
ValidateBranchName(name) ==
    IF name = <<>> THEN "branch name cannot be empty"
    ELSE IF \E k \in 1..Len(invalidPatterns) : Contains(name, invalidPatterns[k])
         THEN "branch name contains invalid pattern"
    ELSE IF HasPrefix(name, <<".">>) \/ HasSuffix(name, <<".">>)
         THEN "branch name cannot start or end with a dot"
    ELSE IF HasPrefix(name, <<"/">>) \/ HasSuffix(name, <<"/">>)
         THEN "branch name cannot start or end with a slash"
    ELSE IF Contains(name, <<"/", "/">>) THEN "branch name cannot contain consecutive slashes"
    ELSE "nil"

CallValidateBranchName ==
    /\ vpc = "start"
    /\ verr' = ValidateBranchName(vname)
    /\ vpc' = "done"
    /\ UNCHANGED <<vname, notValidate>>

CallValidateProjectName ==
    /\ vpc = "start"
    /\ verr' = ValidateProjectName(vname)
    /\ vpc' = "done"
    /\ UNCHANGED <<vname, notValidate>>

(***************************************************************************)
(* Specifications of the two validators                                    *)
(***************************************************************************)
BranchAlphabet ==
    {"a", "/", ".", "lock", "~", "^", ":", "\\", " ", "?", "*", "[", "@", "{"}

ProjectAlphabet == {"a", "/", "\\", ".", "git", "bare"}

InitBranchName ==
    /\ vname \in SeqsUpTo(BranchAlphabet, MaxNameLen)
    /\ vpc = "start"
    /\ verr = "nil"
    /\ ConfigIdle /\ MergeIdle /\ QuoteIdle /\ HooksIdle /\ ExecIdle /\ RootIdle /\ ParseIdle
    /\ CmdIdle /\ FlattenIdle /\ StatusIdle /\ DefaultIdle /\ AddIdle /\ RaceIdle /\ ExitIdle

SpecBranchName == InitBranchName /\ [][CallValidateBranchName]_vars

InitProjectName ==
    /\ vname \in SeqsUpTo(ProjectAlphabet, MaxNameLen)
    /\ vpc = "start"
    /\ verr = "nil"
    /\ ConfigIdle /\ MergeIdle /\ QuoteIdle /\ HooksIdle /\ ExecIdle /\ RootIdle /\ ParseIdle
    /\ CmdIdle /\ FlattenIdle /\ StatusIdle /\ DefaultIdle /\ AddIdle /\ RaceIdle /\ ExitIdle

SpecProjectName == InitProjectName /\ [][CallValidateProjectName]_vars

(***************************************************************************)
(* Properties of the validators                                            *)
(***************************************************************************)
\* the characters of the name, one token a character but for the letters
Has(name, ch) == \E k \in 1..Len(name) : name[k] = ch
HasPair(name, c1, c2) == \E k \in 1..(Len(name) - 1) : name[k] = c1 /\ name[k + 1] = c2

\* the branch names the rule refuses: empty; holding "..", one of
\* ~ ^ : \ blank ? * [ or "@{"; ending in ".lock"; starting or ending
\* with "." or "/"; holding "//"
RefusedBranchName(name) ==
    \/ name = <<>>
    \/ HasPair(name, ".", ".")
    \/ \E ch \in {"~", "^", ":", "\\", " ", "?", "*", "["} : Has(name, ch)
    \/ HasPair(name, "@", "{")
    \/ (Len(name) >= 2 /\ name[Len(name) - 1] = "." /\ name[Len(name)] = "lock")
    \/ name[1] \in {".", "/"}
    \/ name[Len(name)] \in {".", "/"}
    \/ HasPair(name, "/", "/")

\* C19: ValidateBranchName fails exactly for the refused names; every other
\* name passes, among them the names that hold ".lock" elsewhere than at
\* their end.
C19_BranchNameRule ==
    vpc = "done" => (verr # "nil" <=> RefusedBranchName(vname))

\* the project names the rule refuses
RefusedProjectName(name) ==
    \/ name = <<>>
    \/ Has(name, "/")
    \/ Has(name, "\\")
    \/ HasPair(name, ".", ".")
    \/ name \in {<<".">>, <<".", ".">>, <<".", "git">>, <<".", "bare">>}

\* a component of a path as filepath.Clean reads it: "." and ".." are the
\* two special components, an empty component is skipped like "."
Elem(component) ==
    IF component = <<>> \/ component = <<".">> THEN "."
    ELSE IF component = <<".", ".">> THEN ".."
    ELSE component

\* filepath.Join(root, name) for a clean rooted path root: Clean(root + "/" + name),
\* as the sequence of the components of the result
JoinPath(root, name) ==
    LET parts == Split(name, "/")
    IN  Clean(<<>>, root \o [k \in 1..Len(parts) |-> Elem(parts[k])])

\* C20: ValidateProjectName fails exactly for the refused names; an
\* accepted name is one path component, and joined to the worktree root it
\* gives a direct child of the root that is neither .bare nor .git.
C20_ProjectNameRule ==
    vpc = "done" =>
        /\ verr # "nil" <=> RefusedProjectName(vname)
        /\ verr = "nil" =>
            /\ Len(Split(vname, "/")) = 1
            /\ \A root \in {<<>>, <<<<"w">>>>} :
                /\ JoinPath(root, vname) = Append(root, vname)
                /\ vname \notin {<<".", "bare">>, <<".", "git">>}

\* an accepted name that holds a dot and the letters of a reserved name
C20_Witness ==
    /\ vpc = "done"
    /\ verr = "nil"
    /\ Has(vname, ".")
    /\ Has(vname, "git")

(***************************************************************************)
(* internal/commands: new (add), delete, prune, clone, over a repository   *)
(*                                                                         *)
(* The repository is what git and the file system hold: the registered     *)
(* worktrees in the order git lists them, the local branches, the          *)
(* worktrees with uncommitted changes, the branches of the remote and the  *)
(* directories that exist.  A path is the sequence of its components, a    *)
(* component the sequence of its characters.  clog is the record of what   *)
(* the running command did outside of itself: each git subprocess and each *)
(* file system call, with its arguments and whether it succeeded.          *)
(***************************************************************************)
\* DefaultBranch, FallbackBranch
DefaultBranch == <<"main">>
FallbackBranch == <<"master">>

\* the component .bare
BareComponent == <<".", "bare">>

\* what git.GetProjectRoot(".") returns in the project of the model, and
\* cfg.WorktreeRoot
CmdProjectRoot == << <<"w">>, <<"p">> >>
WorktreeRoot == << <<"w">> >>

RECURSIVE PathText(_)
\* the text of a clean rooted path
PathText(path) ==
    IF path = <<>> THEN <<>>
    ELSE <<"/">> \o Head(path) \o PathText(Tail(path))

\* one record of "git worktree list --porcelain" and the blank line after it
PorcelainRecord(wt) ==
    WorktreeKey \o PathText(wt.Path) \o <<"\n">>
    \o (IF wt.kind = "bare" THEN <<"bare", "\n">>
        ELSE HeadKey \o <<"c">> \o <<"\n">>
             \o (IF wt.kind = "detached" THEN <<"detached", "\n">>
                 ELSE BranchKey \o RefsHeads \o wt.Branch \o <<"\n">>))
    \o <<"\n">>

RECURSIVE Porcelain(_)
\* the output of "git worktree list --porcelain"
Porcelain(wts) ==
    IF wts = <<>> THEN <<>> ELSE PorcelainRecord(Head(wts)) \o Porcelain(Tail(wts))

\* ListWorktrees when the git command succeeds; RunInDir returns the output
\* trimmed
ListWorktrees(wts) == parseWorktreeList(TrimSpace(Porcelain(wts)))

\* the registered worktree at a path
Registered(path) == \E k \in 1..Len(gwt) : gwt[k].Path = path
EntryAt(path) == gwt[CHOOSE k \in 1..Len(gwt) : gwt[k].Path = path]

\* a path git accepts as a linked worktree to remove: registered, and not
\* the bare repository itself
Removable(path) == Registered(path) /\ EntryAt(path).kind # "bare"

\* the sequence without the entries at the path
RECURSIVE Unregister(_, _)
Unregister(wts, path) ==
    IF wts = <<>> THEN <<>>
    ELSE IF Head(wts).Path = path THEN Unregister(Tail(wts), path)
    ELSE <<Head(wts)>> \o Unregister(Tail(wts), path)

\* an entry of clog
Op(op, path, branch, force, ok) ==
    [op |-> op, path |-> path, branch |-> branch, force |-> force, ok |-> ok]

\* the error kinds of the commands
ErrNotFound == "worktree not found"
ErrValidation == "validation"
ErrGit == "git"
ErrAlreadyExists == "already exists"

\* the return of a command: in JSON mode the error goes into the document
Return(err, data, printed) ==
    /\ cout' = [err |-> err, data |-> data, printed |-> printed]
    /\ cpc' = "done"

\* the branch names given to add and delete: three names ValidateBranchName
\* accepts, two of them with the same flattened directory, and two it refuses
BranchNames == {<<"a">>, <<"a", "/", "b">>, <<"a", "-", "b">>, <<".", ".">>, <<>>}

\* the values of --base: none, the default branch, a name git cannot resolve
BaseNames == {<<>>, DefaultBranch, <<"~">>}

\* the project names given to clone
ProjectNames == {<<"q">>, <<".", ".">>, <<".", "bare">>, <<"a", "/", "q">>}

\* a git subprocess can fail for reasons of its own (a timeout, a lock)
Outcomes == BOOLEAN

(***************************************************************************)
(* runDelete                                                               *)
(***************************************************************************)
\* runDelete with the branch name itself as the directory
DeleteCall_NoFlatten ==
    /\ cpc = "idle"
    /\ \E name \in BranchNames, force \in BOOLEAN, json \in BOOLEAN, dryRun \in BOOLEAN,
          yes \in BOOLEAN :
        LET worktreePath == JoinPath(CmdProjectRoot, name)
            exists == worktreePath \in fdirs
        IN  /\ call' = [cmd |-> "delete", name |-> name, base |-> <<>>, force |-> force,
                        json |-> json, dryRun |-> dryRun, yes |-> yes]
            /\ loc' = [NoLocals EXCEPT !.worktreePath = worktreePath]
            /\ clog' = <<Op("stat", worktreePath, <<>>, FALSE, exists)>>
            /\ IF ~exists
               THEN Return(ErrNotFound, <<>>, {})
               ELSE cpc' = "status" /\ cout' = NoOutput
    /\ UNCHANGED <<gwt, gbranches, gdirty, gremote, fdirs, notCmd>>

\* lines 48-128: the branch name is args[0] or the selection of the form;
\* the worktree path is built and looked up
DeleteCall ==
    /\ cpc = "idle"
    /\ \E name \in BranchNames, force \in BOOLEAN, json \in BOOLEAN, dryRun \in BOOLEAN,
          yes \in BOOLEAN :
        LET worktreePath == JoinPath(CmdProjectRoot, FlattenBranchName(name))
            exists == worktreePath \in fdirs
        IN  /\ call' = [cmd |-> "delete", name |-> name, base |-> <<>>, force |-> force,
                        json |-> json, dryRun |-> dryRun, yes |-> yes]
            /\ loc' = [NoLocals EXCEPT !.worktreePath = worktreePath]
            /\ clog' = <<Op("stat", worktreePath, <<>>, FALSE, exists)>>
            /\ IF ~exists
               THEN Return(ErrNotFound, <<>>, {})
               ELSE cpc' = "status" /\ cout' = NoOutput
    /\ UNCHANGED <<gwt, gbranches, gdirty, gremote, fdirs, notCmd>>

RECURSIVE StatusText(_)
\* what "git status --porcelain" writes for the entries: a line for each
StatusText(entries) ==
    IF entries = <<>> THEN <<>>
    ELSE Head(entries) \o <<"\n">> \o StatusText(Tail(entries))

\* RunInDir(worktreePath, "status", "--porcelain"): the output trimmed, or an
\* error
RunStatus(entries, ok) ==
    IF ok THEN [failed |-> FALSE, output |-> TrimSpace(StatusText(entries))]
    ELSE [failed |-> TRUE, output |-> <<>>]

\* GetWorktreeStatus after RunInDir: "unknown" when git failed, "clean" for an
\* empty output, else the count of the lines; the error is always nil
GetWorktreeStatusOf(run) ==
    IF run.failed THEN [status |-> "unknown", err |-> "nil"]
    ELSE LET lines == Split(TrimSpace(run.output), "\n")
         IN  IF run.output = <<>> \/ Len(lines) = 0 \/ (Len(lines) = 1 /\ lines[1] = <<>>)
             THEN [status |-> "clean", err |-> "nil"]
             ELSE [status |-> ToString(Len(lines)) \o " modified", err |-> "nil"]

\* the line of a modified file
ModifiedEntry == <<" ", "M", " ", "f">>

\* what git status has to report in a worktree of the repository
StatusEntries(worktreePath) == IF worktreePath \in gdirty THEN <<ModifiedEntry>> ELSE <<>>

\* GetWorktreeStatus in the repository; git fails outside a worktree
GetWorktreeStatus(worktreePath, ok) ==
    GetWorktreeStatusOf(RunStatus(StatusEntries(worktreePath),
                                  ok /\ Removable(worktreePath))).status

\* runDelete without the check of lines 153-169
DeleteStatus_NoRefusal ==
    /\ cpc = "status"
    /\ call.cmd = "delete"
    /\ \E ok \in Outcomes :
        LET status == GetWorktreeStatus(loc.worktreePath, ok)
            ran == Op("git status", loc.worktreePath, <<>>, FALSE, status # "unknown")
        IN  /\ loc' = [loc EXCEPT !.status = status]
            /\ IF call.dryRun
               THEN /\ clog' = Append(clog, ran)
                    /\ Return("nil",
                              [Branch |-> call.name, Path |-> loc.worktreePath, DryRun |-> TRUE,
                               Status |-> status, BranchDeleted |-> FALSE],
                              IF call.json THEN {} ELSE {"Dry run - would delete:"})
               ELSE IF FALSE
               THEN IF call.json
                    THEN /\ clog' = Append(clog, ran)
                         /\ Return(ErrValidation, <<>>, {})
                    ELSE /\ clog' = clog \o <<ran, ran>>
                         /\ Return("nil", <<>>, {"Use --force to delete worktrees with uncommitted changes."})
               ELSE /\ clog' = Append(clog, ran)
                    /\ cpc' = "confirm"
                    /\ cout' = cout
    /\ UNCHANGED <<gwt, gbranches, gdirty, gremote, fdirs, call, notCmd>>

\* lines 130-169: the dry run, and the refusal of a worktree that is not clean
DeleteStatus ==
    /\ cpc = "status"
    /\ call.cmd = "delete"
    /\ \E ok \in Outcomes :
        LET status == GetWorktreeStatus(loc.worktreePath, ok)
            ran == Op("git status", loc.worktreePath, <<>>, FALSE, status # "unknown")
        IN  /\ loc' = [loc EXCEPT !.status = status]
            /\ IF call.dryRun
               THEN /\ clog' = Append(clog, ran)
                    /\ Return("nil",
                              [Branch |-> call.name, Path |-> loc.worktreePath, DryRun |-> TRUE,
                               Status |-> status, BranchDeleted |-> FALSE],
                              IF call.json THEN {} ELSE {"Dry run - would delete:"})
               ELSE IF status # "clean" /\ ~call.force
               THEN IF call.json
                    THEN /\ clog' = Append(clog, ran)
                         /\ Return(ErrValidation, <<>>, {})
                    ELSE /\ clog' = clog \o <<ran, ran>>
                         /\ Return("nil", <<>>, {"Use --force to delete worktrees with uncommitted changes."})
               ELSE /\ clog' = Append(clog, ran)
                    /\ cpc' = "confirm"
                    /\ cout' = cout
    /\ UNCHANGED <<gwt, gbranches, gdirty, gremote, fdirs, call, notCmd>>

\* lines 171-199: the confirmation, skipped with --yes and in JSON mode
DeleteConfirm ==
    /\ cpc = "confirm"
    /\ call.cmd = "delete"
    /\ \E confirm \in BOOLEAN :
        IF ~call.yes /\ ~call.json /\ ~confirm
        THEN Return("nil", <<>>, {"Cancelled."})
        ELSE cpc' = "remove" /\ cout' = cout
    /\ UNCHANGED <<gwt, gbranches, gdirty, gremote, fdirs, clog, call, loc, notCmd>>

\* "git worktree remove [--force] path": git removes a registered linked
\* worktree, one with uncommitted changes only when forced
RemoveSucceeds(path, force, ok) == ok /\ Removable(path) /\ (force \/ path \notin gdirty)

\* "git branch -D name": git deletes a local branch that is not checked out
BranchDeleteSucceeds(branch, wts, ok) ==
    /\ ok
    /\ branch \in gbranches
    /\ ~\E k \in 1..Len(wts) : wts[k].kind = "branch" /\ wts[k].Branch = branch

\* lines 201-218: RemoveWorktreeForce with --force, RemoveWorktree without
DeleteRemove ==
    /\ cpc = "remove"
    /\ call.cmd = "delete"
    /\ \E ok \in Outcomes :
        LET removed == RemoveSucceeds(loc.worktreePath, call.force, ok)
        IN  /\ clog' = Append(clog, Op("git worktree remove", loc.worktreePath, <<>>, call.force,
                                       removed))
            /\ IF removed
               THEN /\ gwt' = Unregister(gwt, loc.worktreePath)
                    /\ fdirs' = fdirs \ {loc.worktreePath}
                    /\ gdirty' = gdirty \ {loc.worktreePath}
                    /\ cpc' = "branch"
                    /\ cout' = [cout EXCEPT !.printed =
                                   IF call.json THEN {} ELSE {"Removed worktree"}]
               ELSE /\ UNCHANGED <<gwt, fdirs, gdirty>>
                    /\ Return(ErrGit, <<>>, {})
    /\ UNCHANGED <<gbranches, gremote, call, loc, notCmd>>

\* lines 220-246: DeleteBranch, whose failure is a warning, and the result
DeleteBranchStep ==
    /\ cpc = "branch"
    /\ call.cmd = "delete"
    /\ \E ok \in Outcomes :
        LET branchDeleted == BranchDeleteSucceeds(call.name, gwt, ok)
        IN  /\ clog' = Append(clog, Op("git branch -D", <<>>, call.name, FALSE, branchDeleted))
            /\ gbranches' = IF branchDeleted THEN gbranches \ {call.name} ELSE gbranches
            /\ loc' = [loc EXCEPT !.branchDeleted = branchDeleted]
            /\ Return("nil",
                      [Branch |-> call.name, Path |-> loc.worktreePath, DryRun |-> FALSE,
                       Status |-> "", BranchDeleted |-> branchDeleted],
                      IF call.json THEN {}
                      ELSE cout.printed \cup
                           {IF branchDeleted THEN "Deleted branch" ELSE "Could not delete branch"})
    /\ UNCHANGED <<gwt, gdirty, gremote, fdirs, call, notCmd>>

(***************************************************************************)
(* runNew                                                                  *)
(***************************************************************************)
\* lines 68-273: the name is args[0] or the input of the form; an empty name
\* and a name ValidateBranchName refuses end the command
NewCall ==
    /\ cpc = "idle"
    /\ \E name \in BranchNames, baseBranch \in BaseNames, json \in BOOLEAN :
        /\ call' = [cmd |-> "new", name |-> name, base |-> baseBranch, force |-> FALSE,
                    json |-> json, dryRun |-> FALSE, yes |-> FALSE]
        /\ IF name = <<>> \/ ValidateBranchName(name) # "nil"
           THEN Return(ErrValidation, <<>>, {})
           ELSE cpc' = "create" /\ cout' = NoOutput
    /\ loc' = NoLocals
    /\ clog' = <<>>
    /\ UNCHANGED <<gwt, gbranches, gdirty, gremote, fdirs, notCmd>>

\* "git worktree add --relative-paths path -b branch [base]": git creates the
\* branch and the worktree when the branch is new, the directory does not
\* exist and the base, if given, names a commit
AddSucceeds(path, branch, baseBranch, ok) ==
    /\ ok
    /\ branch \notin gbranches
    /\ path \notin fdirs
    /\ baseBranch \in {<<>>} \cup gbranches

\* lines 275-291 with CreateWorktreeWithBase
NewCreate ==
    /\ cpc = "create"
    /\ call.cmd = "new"
    /\ \E ok \in Outcomes :
        LET worktreePath == JoinPath(CmdProjectRoot, FlattenBranchName(call.name))
            created == AddSucceeds(worktreePath, call.name, call.base, ok)
        IN  /\ clog' = Append(clog, Op("git worktree add", worktreePath, call.name, FALSE, created))
            /\ IF created
               THEN /\ gwt' = Append(gwt, [Path |-> worktreePath, Branch |-> call.name,
                                           kind |-> "branch"])
                    /\ gbranches' = gbranches \cup {call.name}
                    /\ fdirs' = fdirs \cup {worktreePath}
                    /\ loc' = [loc EXCEPT !.worktreePath = worktreePath]
                    /\ cpc' = "hooks"
                    /\ cout' = cout
               ELSE /\ UNCHANGED <<gwt, gbranches, fdirs, loc>>
                    /\ Return(ErrGit, <<>>, {})
    /\ UNCHANGED <<gdirty, gremote, call, notCmd>>

\* lines 293-335: GetDefaultBranch, the post-add hooks, the result
NewHooks ==
    /\ cpc = "hooks"
    /\ call.cmd = "new"
    /\ \E ok \in Outcomes :
        clog' = clog \o <<Op("git symbolic-ref", CmdProjectRoot, <<>>, FALSE, ok),
                          Op("hooks", loc.worktreePath, call.name, FALSE, TRUE)>>
    /\ Return("nil", [Branch |-> call.name, Path |-> loc.worktreePath],
              IF call.json THEN {} ELSE {"Created worktree"})
    /\ UNCHANGED <<gwt, gbranches, gdirty, gremote, fdirs, call, loc, notCmd>>

(***************************************************************************)
(* runPrune                                                                *)
(***************************************************************************)
\* the path a text of the listing names
PathOf(text) == Tail(Split(text, "/"))

\* "git rev-parse --verify refs/remotes/<remote>/<branch>" fails when the
\* remote has no such branch
OnRemote(branch) == branch \in gremote

RECURSIVE StaleOf(_)
\* lines 99-117: the listed worktrees that are stale; main and master are
\* skipped
StaleOf(worktrees) ==
    IF worktrees = <<>> THEN <<>>
    ELSE LET wt == Head(worktrees)
         IN  IF wt.Branch = DefaultBranch \/ wt.Branch = FallbackBranch \/ OnRemote(wt.Branch)
             THEN StaleOf(Tail(worktrees))
             ELSE <<wt>> \o StaleOf(Tail(worktrees))

RECURSIVE VerifyOps(_)
\* the rev-parse subprocesses of that loop
VerifyOps(worktrees) ==
    IF worktrees = <<>> THEN <<>>
    ELSE LET wt == Head(worktrees)
         IN  IF wt.Branch = DefaultBranch \/ wt.Branch = FallbackBranch
             THEN VerifyOps(Tail(worktrees))
             ELSE <<Op("git rev-parse", CmdProjectRoot, wt.Branch, FALSE, OnRemote(wt.Branch))>>
                  \o VerifyOps(Tail(worktrees))

StaleInfo(wt) ==
    [Branch |-> wt.Branch, Path |-> wt.Path, Reason |-> "branch deleted on remote",
     Removed |-> FALSE]

\* lines 51-153: fetch, list, find the stale worktrees, dry run
PruneCall ==
    /\ cpc = "idle"
    /\ \E json \in BOOLEAN, dryRun \in BOOLEAN, yes \in BOOLEAN, fetched \in Outcomes,
          listed \in Outcomes :
        LET worktrees == ListWorktrees(gwt)
            stale == StaleOf(worktrees)
            staleInfos == [k \in 1..Len(stale) |-> StaleInfo(stale[k])]
            first == <<Op("git fetch", CmdProjectRoot, <<>>, FALSE, fetched),
                       Op("git worktree list", CmdProjectRoot, <<>>, FALSE, listed)>>
        IN  /\ call' = [cmd |-> "prune", name |-> <<>>, base |-> <<>>, force |-> FALSE,
                        json |-> json, dryRun |-> dryRun, yes |-> yes]
            /\ IF ~listed
               THEN /\ clog' = first
                    /\ loc' = NoLocals
                    /\ Return(ErrGit, <<>>, {})
               ELSE /\ clog' = first \o VerifyOps(worktrees)
                    /\ loc' = [NoLocals EXCEPT !.stale = stale, !.staleInfos = staleInfos, !.i = 1]
                    /\ IF stale = <<>>
                       THEN Return("nil", [StaleWorktrees |-> <<>>, Removed |-> 0, DryRun |-> FALSE],
                                   IF json THEN {} ELSE {"No stale worktrees found"})
                       ELSE IF dryRun
                       THEN Return("nil",
                                   [StaleWorktrees |-> staleInfos, Removed |-> 0, DryRun |-> TRUE],
                                   IF json THEN {} ELSE {"Dry run - no changes made"})
                       ELSE cpc' = "confirm" /\ cout' = NoOutput
    /\ UNCHANGED <<gwt, gbranches, gdirty, gremote, fdirs, notCmd>>

\* lines 155-181: the confirmation, skipped with --yes and in JSON mode
PruneConfirm ==
    /\ cpc = "confirm"
    /\ call.cmd = "prune"
    /\ \E confirm \in BOOLEAN :
        IF ~call.yes /\ ~call.json /\ ~confirm
        THEN Return("nil", <<>>, {"Cancelled."})
        ELSE cpc' = "remove" /\ cout' = cout
    /\ UNCHANGED <<gwt, gbranches, gdirty, gremote, fdirs, clog, call, loc, notCmd>>

\* lines 184-202: one turn of the loop over the stale worktrees
PruneRemove ==
    /\ cpc = "remove"
    /\ call.cmd = "prune"
    /\ loc.i <= Len(loc.stale)
    /\ \E ok \in Outcomes, okBranch \in Outcomes :
        LET wt == loc.stale[loc.i]
            path == PathOf(wt.Path)
            removed == RemoveSucceeds(path, TRUE, ok)
            left == Unregister(gwt, path)
            branchDeleted == BranchDeleteSucceeds(wt.Branch, left, okBranch)
            removal == Op("git worktree remove", path, <<>>, TRUE, removed)
        IN  IF ~removed
            THEN /\ clog' = Append(clog, removal)
                 /\ cout' = [cout EXCEPT !.printed =
                                IF call.json THEN @ ELSE @ \cup {"Failed to remove"}]
                 /\ loc' = [loc EXCEPT !.i = @ + 1]
                 /\ UNCHANGED <<gwt, gbranches, gdirty, fdirs>>
            ELSE /\ clog' = clog \o <<removal, Op("git branch -D", <<>>, wt.Branch, FALSE,
                                                  branchDeleted)>>
                 /\ gwt' = left
                 /\ fdirs' = fdirs \ {path}
                 /\ gdirty' = gdirty \ {path}
                 /\ gbranches' = IF branchDeleted THEN gbranches \ {wt.Branch} ELSE gbranches
                 /\ cout' = [cout EXCEPT !.printed =
                                IF call.json \/ branchDeleted THEN @
                                ELSE @ \cup {"Failed to delete branch"}]
                 /\ loc' = [loc EXCEPT !.i = @ + 1, !.removed = @ + 1,
                                       !.staleInfos[loc.i].Removed = TRUE]
    /\ cpc' = cpc
    /\ UNCHANGED <<gremote, call, notCmd>>

\* lines 204-223: "git worktree prune" and the result
PruneFinish ==
    /\ cpc = "remove"
    /\ call.cmd = "prune"
    /\ loc.i > Len(loc.stale)
    /\ \E ok \in Outcomes :
        /\ clog' = Append(clog, Op("git worktree prune", CmdProjectRoot, <<>>, FALSE, ok))
        /\ Return("nil",
                  [StaleWorktrees |-> loc.staleInfos, Removed |-> loc.removed, DryRun |-> FALSE],
                  IF call.json THEN {}
                  ELSE cout.printed \cup {"Removed stale worktrees"}
                       \cup (IF ok THEN {} ELSE {"Failed to prune worktrees"}))
    /\ UNCHANGED <<gwt, gbranches, gdirty, gremote, fdirs, call, loc, notCmd>>

(***************************************************************************)
(* runClone                                                                *)
(***************************************************************************)
\* lines 60-173: the name is args[1], the name in the URL or the input of
\* the form; ValidateProjectName; an existing target is removed with --force
CloneCall ==
    /\ cpc = "idle"
    /\ \E name \in ProjectNames, force \in BOOLEAN, json \in BOOLEAN, ok \in Outcomes :
        LET targetDir == JoinPath(WorktreeRoot, name)
            exists == targetDir \in fdirs
            found == Op("stat", targetDir, <<>>, FALSE, exists)
        IN  /\ call' = [cmd |-> "clone", name |-> name, base |-> <<>>, force |-> force,
                        json |-> json, dryRun |-> FALSE, yes |-> FALSE]
            /\ IF ValidateProjectName(name) # "nil"
               THEN /\ clog' = <<>>
                    /\ loc' = NoLocals
                    /\ fdirs' = fdirs
                    /\ Return(ErrValidation, <<>>, {})
               ELSE /\ loc' = [NoLocals EXCEPT !.worktreePath = targetDir]
                    /\ IF ~exists
                       THEN /\ clog' = <<found>>
                            /\ fdirs' = fdirs
                            /\ cpc' = "mkdir"
                            /\ cout' = NoOutput
                       ELSE IF ~force
                       THEN /\ clog' = <<found>>
                            /\ fdirs' = fdirs
                            /\ Return(ErrAlreadyExists, <<>>, {})
                       ELSE /\ clog' = <<found, Op("removeall", targetDir, <<>>, TRUE, ok)>>
                            /\ IF ok
                               THEN /\ fdirs' = fdirs \ {targetDir}
                                    /\ cpc' = "mkdir"
                                    /\ cout' = NoOutput
                               ELSE /\ fdirs' = fdirs
                                    /\ Return(ErrGit, <<>>, {})
    /\ UNCHANGED <<gwt, gbranches, gdirty, gremote, notCmd>>

\* lines 175-186: os.Mkdir, and once more after os.MkdirAll of the parent
CloneMkdir ==
    /\ cpc = "mkdir"
    /\ call.cmd = "clone"
    /\ \E ok \in Outcomes, parent \in Outcomes, again \in Outcomes :
        LET targetDir == loc.worktreePath
            made == Op("mkdir", targetDir, <<>>, FALSE, ok)
            parents == Op("mkdirall", Dir(targetDir), <<>>, FALSE, parent)
        IN  IF ok
            THEN /\ clog' = Append(clog, made)
                 /\ fdirs' = fdirs \cup {targetDir}
                 /\ cpc' = "clone"
                 /\ cout' = cout
            ELSE IF ~parent
            THEN /\ clog' = clog \o <<made, parents>>
                 /\ fdirs' = fdirs
                 /\ Return("failed to create parent directory", <<>>, {})
            ELSE /\ clog' = clog \o <<made, parents, Op("mkdir", targetDir, <<>>, FALSE, again)>>
                 /\ IF again
                    THEN /\ fdirs' = fdirs \cup {targetDir}
                         /\ cpc' = "clone"
                         /\ cout' = cout
                    ELSE /\ fdirs' = fdirs
                         /\ Return("failed to create directory", <<>>, {})
    /\ UNCHANGED <<gwt, gbranches, gdirty, gremote, call, loc, notCmd>>

\* lines 188-260: BareClone, whose failure removes the target; the worktree
\* of the default branch; the post-clone hooks
CloneFinish ==
    /\ cpc = "clone"
    /\ call.cmd = "clone"
    /\ \E cloned \in Outcomes, created \in Outcomes, ok \in Outcomes :
        LET targetDir == loc.worktreePath
            clone == Op("git clone --bare", targetDir, <<>>, FALSE, cloned)
        IN  IF ~cloned
            THEN /\ clog' = clog \o <<clone, Op("removeall", targetDir, <<>>, TRUE, TRUE)>>
                 /\ fdirs' = fdirs \ {targetDir}
                 /\ Return(ErrGit, <<>>, {})
            ELSE /\ fdirs' = fdirs
                 /\ IF ~created
                    THEN /\ clog' = clog \o <<clone,
                                Op("git symbolic-ref", targetDir, <<>>, FALSE, ok),
                                Op("git worktree add", Append(targetDir, DefaultBranch),
                                   DefaultBranch, FALSE, FALSE)>>
                         /\ Return(ErrGit, <<>>, {})
                    ELSE /\ clog' = clog \o <<clone,
                                Op("git symbolic-ref", targetDir, <<>>, FALSE, ok),
                                Op("git worktree add", Append(targetDir, DefaultBranch),
                                   DefaultBranch, FALSE, TRUE),
                                Op("hooks", Append(targetDir, DefaultBranch), DefaultBranch,
                                   FALSE, TRUE)>>
                         /\ Return("nil", [Path |-> targetDir], {})
    /\ UNCHANGED <<gwt, gbranches, gdirty, gremote, call, loc, notCmd>>

(***************************************************************************)
(* The commands in a project                                               *)
(***************************************************************************)
\* the process ends; the next command starts with nothing of this one
(***************************************************************************)
(* runList                                                                 *)
(***************************************************************************)
\* list.go lines 58-61: the entry of the bare repository and the entries
\* without a branch are skipped
Skipped(wt) == HasSuffix(wt.Path, <<"/">> \o BareComponent) \/ wt.Branch = <<>>

RECURSIVE ListInfos(_, _, _)
\* lines 57-70: the worktreeInfo of each entry from the k-th on
ListInfos(worktrees, oks, k) ==
    IF k > Len(worktrees) THEN <<>>
    ELSE IF Skipped(worktrees[k]) THEN ListInfos(worktrees, oks, k + 1)
    ELSE <<[Branch |-> worktrees[k].Branch, Path |-> worktrees[k].Path,
            Status |-> GetWorktreeStatus(PathOf(worktrees[k].Path), oks[k])]>>
         \o ListInfos(worktrees, oks, k + 1)

\* lines 45-113: the listing, a status for each entry, the output
ListCall ==
    /\ cpc = "idle"
    /\ \E json \in BOOLEAN, listed \in Outcomes, oks \in [1..Len(gwt) -> Outcomes] :
        LET worktrees == ListWorktrees(gwt)
            infos == ListInfos(worktrees, oks, 1)
            ran == [k \in 1..Len(infos) |->
                       Op("git status", PathOf(infos[k].Path), <<>>, FALSE,
                          infos[k].Status # "unknown")]
        IN  /\ call' = [NoCall EXCEPT !.cmd = "list", !.json = json]
            /\ IF ~listed
               THEN /\ clog' = <<Op("git worktree list", CmdProjectRoot, <<>>, FALSE, FALSE)>>
                    /\ Return(ErrGit, <<>>, {})
               ELSE /\ clog' = <<Op("git worktree list", CmdProjectRoot, <<>>, FALSE, TRUE)>> \o ran
                    /\ Return("nil", [Worktrees |-> infos, Count |-> Len(infos)],
                              IF json THEN {} ELSE {"BRANCH STATUS PATH"})
    /\ loc' = NoLocals
    /\ UNCHANGED <<gwt, gbranches, gdirty, gremote, fdirs, notCmd>>

CmdExit ==
    /\ cpc = "done"
    /\ cpc' = "idle"
    /\ call' = NoCall
    /\ loc' = NoLocals
    /\ cout' = NoOutput
    /\ clog' = <<>>
    /\ UNCHANGED <<gwt, gbranches, gdirty, gremote, fdirs, notCmd>>

\* the user changes a file in a worktree, or commits or reverts the changes
Edit ==
    /\ \E k \in 1..Len(gwt) :
        /\ gwt[k].kind # "bare"
        /\ gdirty' = IF gwt[k].Path \in gdirty THEN gdirty \ {gwt[k].Path}
                     ELSE gdirty \cup {gwt[k].Path}
    /\ UNCHANGED <<gwt, gbranches, gremote, fdirs, clog, call, cpc, loc, cout, notCmd>>

\* a project after clone: the bare repository and the worktree of the
\* default branch
InitCmd ==
    /\ gwt = << [Path |-> Append(CmdProjectRoot, BareComponent), Branch |-> <<>>, kind |-> "bare"],
                [Path |-> Append(CmdProjectRoot, DefaultBranch), Branch |-> DefaultBranch,
                 kind |-> "branch"] >>
    /\ gbranches = {DefaultBranch}
    /\ gdirty = {}
    /\ gremote \in {{}, {<<"a">>}}
    /\ fdirs = {<<>>, WorktreeRoot, CmdProjectRoot, Append(CmdProjectRoot, BareComponent),
                Append(CmdProjectRoot, DefaultBranch)}
    /\ clog = <<>>
    /\ call = NoCall
    /\ cpc = "idle"
    /\ loc = NoLocals
    /\ cout = NoOutput
    /\ ConfigIdle /\ MergeIdle /\ QuoteIdle /\ HooksIdle /\ ExecIdle /\ RootIdle /\ ParseIdle
    /\ ValidateIdle /\ FlattenIdle /\ StatusIdle /\ DefaultIdle /\ AddIdle /\ RaceIdle /\ ExitIdle

NextCmd ==
    \/ DeleteCall \/ DeleteStatus \/ DeleteConfirm \/ DeleteRemove \/ DeleteBranchStep
    \/ NewCall \/ NewCreate \/ NewHooks
    \/ PruneCall \/ PruneConfirm \/ PruneRemove \/ PruneFinish
    \/ CloneCall \/ CloneMkdir \/ CloneFinish
    \/ ListCall
    \/ CmdExit \/ Edit

SpecCmd == InitCmd /\ [][NextCmd]_vars

(***************************************************************************)
(* Properties of the commands                                              *)
(***************************************************************************)
\* the entries of clog that are worktree removals, branch deletions
IsRemoval(k) == clog[k].op = "git worktree remove"
IsBranchDeletion(k) == clog[k].op = "git branch -D"

\* C15: the delete command runs a worktree removal only after the status
\* was "clean" or with --force; the removal is the forced one exactly when
\* --force was given, it is of the worktree path of the command, and a dry
\* run removes nothing.
C15_DirtyNeedsForce ==
    call.cmd = "delete" =>
        \A k \in 1..Len(clog) :
            IsRemoval(k) =>
                /\ loc.status = "clean" \/ call.force
                /\ clog[k].force = call.force
                /\ clog[k].path = loc.worktreePath
                /\ ~call.dryRun

\* a worktree with uncommitted changes was removed by delete --force
C15_Witness ==
    /\ call.cmd = "delete"
    /\ call.force
    /\ loc.status = "1 modified"
    /\ \E k \in 1..Len(clog) : IsRemoval(k) /\ clog[k].force /\ clog[k].ok

\* a clean worktree was removed by delete without --force
CleanRemovedUnforced ==
    /\ call.cmd = "delete"
    /\ ~call.force
    /\ loc.status = "clean"
    /\ \E k \in 1..Len(clog) : IsRemoval(k) /\ ~clog[k].force /\ clog[k].ok

\* the worktree and the branch an entry of clog is about are those of the
\* command (delete) or of one stale worktree (prune)
SameWorktree(path, branch) ==
    IF call.cmd = "delete" THEN path = loc.worktreePath /\ branch = call.name
    ELSE \E n \in 1..Len(loc.stale) :
            PathOf(loc.stale[n].Path) = path /\ loc.stale[n].Branch = branch

\* a branch deletion comes right after the successful removal of the
\* worktree of that branch, so none follows a failed removal
DeletionFollowsRemoval ==
    \A k \in 1..Len(clog) :
        IsBranchDeletion(k) =>
            /\ k > 1
            /\ IsRemoval(k - 1)
            /\ clog[k - 1].ok
            /\ SameWorktree(clog[k - 1].path, clog[k].branch)

\* the branch deletions of the command that failed
FailedDeletions == {k \in 1..Len(clog) : IsBranchDeletion(k) /\ ~clog[k].ok}

\* what the command says about the branch: delete has BranchDeleted in its
\* JSON document and a warning line otherwise; prune has the entry of the
\* worktree in its JSON document and a warning line otherwise
ReportsNotDeleted(branch) ==
    IF call.cmd = "delete"
    THEN IF call.json THEN ~cout.data.BranchDeleted
         ELSE "Could not delete branch" \in cout.printed
    ELSE IF call.json
         THEN \A n \in 1..Len(cout.data.StaleWorktrees) :
                 cout.data.StaleWorktrees[n].Branch = branch
                     => ~cout.data.StaleWorktrees[n].Removed
         ELSE "Failed to delete branch" \in cout.printed

\* after a failed branch deletion the worktree stays removed and the
\* command goes on to its end without an error
NoRollback ==
    \A k \in FailedDeletions :
        /\ ~Registered(clog[k - 1].path)
        /\ clog[k - 1].path \notin fdirs
        /\ cpc = "done" => cout.err = "nil"

\* C16: in delete and prune a branch is deleted only right after the
\* successful removal of its worktree; a failed removal is followed by no
\* branch deletion; a failed branch deletion leaves the worktree removed,
\* the command completes and its output reports the branch as not deleted.
C16_BranchAfterRemoval ==
    call.cmd \in {"delete", "prune"} =>
        /\ DeletionFollowsRemoval
        /\ NoRollback
        /\ cpc = "done" => \A k \in FailedDeletions : ReportsNotDeleted(clog[k].branch)

\* the same without the report of prune in JSON mode
OrderAndNoRollback ==
    call.cmd \in {"delete", "prune"} =>
        /\ DeletionFollowsRemoval
        /\ NoRollback
        /\ (cpc = "done" /\ ~(call.cmd = "prune" /\ call.json))
               => \A k \in FailedDeletions : ReportsNotDeleted(clog[k].branch)

\* the path of the worktree of a branch
WorktreePathOf(branch) == JoinPath(CmdProjectRoot, FlattenBranchName(branch))

\* the entries of the listing with the branch
EntriesOf(branch) ==
    LET listing == ListWorktrees(gwt)
    IN  {k \in 1..Len(listing) : listing[k].Branch = branch}

Succeeded(cmd) == cpc = "done" /\ call.cmd = cmd /\ cout.err = "nil"

\* delete has removed the worktree
HasRemoved == \E k \in 1..Len(clog) : IsRemoval(k) /\ clog[k].ok

\* C17: after a successful add of b the listing has exactly one entry with
\* Branch b, at the path projectRoot/flatten(b), which add returns; delete b
\* works on exactly that path; after a successful removal the listing has no
\* entry for b and the directory is gone; when the directory of b does not
\* exist delete reports "worktree not found" and runs nothing else.
C17_Lifecycle ==
    /\ Succeeded("new") =>
        /\ Cardinality(EntriesOf(call.name)) = 1
        /\ \A k \in EntriesOf(call.name) :
              ListWorktrees(gwt)[k].Path = PathText(WorktreePathOf(call.name))
        /\ cout.data.Path = WorktreePathOf(call.name)
    /\ call.cmd = "delete" =>
        /\ loc.worktreePath = WorktreePathOf(call.name)
        /\ \A k \in 1..Len(clog) : clog[k].path \in {<<>>, WorktreePathOf(call.name)}
        /\ (Succeeded("delete") /\ HasRemoved) =>
              /\ EntriesOf(call.name) = {}
              /\ WorktreePathOf(call.name) \notin fdirs
        /\ ~clog[1].ok =>
              /\ Len(clog) = 1
              /\ cpc = "done"
              /\ cout.err = ErrNotFound
    /\ \A b \in BranchNames :
          (ValidateBranchName(b) = "nil" /\ ~Registered(WorktreePathOf(b)))
              => WorktreePathOf(b) \notin fdirs

\* delete has removed the worktree of a/b and deleted the branch add made
C17_Witness ==
    /\ Succeeded("delete")
    /\ call.name = <<"a", "/", "b">>
    /\ HasRemoved
    /\ cout.data.BranchDeleted
    /\ <<"a", "/", "b">> \notin gbranches

\* a worktree that is gone is not found
NotFoundAgain ==
    /\ cpc = "done"
    /\ call.cmd = "delete"
    /\ call.name = <<"a", "/", "b">>
    /\ cout.err = ErrNotFound
    /\ <<"a", "/", "b">> \in gbranches

\* the name the validator of the command refuses
InvalidName ==
    \/ call.cmd \in {"new", "delete"} /\ ValidateBranchName(call.name) # "nil"
    \/ call.cmd = "clone" /\ ValidateProjectName(call.name) # "nil"

\* the subprocesses and the changes of the file system, without the lookups
Effects == {k \in 1..Len(clog) : clog[k].op # "stat"}

\* C18: add, delete and clone end with a validation error for a name their
\* validator refuses, and have then spawned no subprocess and changed
\* nothing.
C18_ValidatesFirst ==
    InvalidName =>
        /\ Effects = {}
        /\ cpc = "done"
        /\ cout.err = ErrValidation

\* the same of add and clone alone
AddCloneValidateFirst ==
    (InvalidName /\ call.cmd # "delete") =>
        /\ clog = <<>>
        /\ cpc = "done"
        /\ cout.err = ErrValidation

(***************************************************************************)
(* FlattenBranchName, called on branch names and on its own results        *)
(***************************************************************************)
MaxBranchLen == 3

\* the branch names given to FlattenBranchName
FlattenAlphabet == {"a", "/", "-"}
FlattenInputs == SeqsUpTo(FlattenAlphabet, MaxBranchLen)

\* a call of FlattenBranchName
Flattened(branch) == [branch |-> branch, dir |-> FlattenBranchName(branch)]

\* FlattenBranchName(branch) for a branch name of the caller
CallFlattenBranchName ==
    /\ \E branch \in FlattenInputs :
        /\ bprev' = blast
        /\ blast' = Flattened(branch)
    /\ UNCHANGED notFlatten

\* FlattenBranchName on the directory name the last call returned
FlattenAgain ==
    /\ blast # NotCalled
    /\ bprev' = blast
    /\ blast' = Flattened(blast.dir)
    /\ UNCHANGED notFlatten

InitFlatten ==
    /\ bprev = NotCalled
    /\ blast = NotCalled
    /\ ConfigIdle /\ MergeIdle /\ QuoteIdle /\ HooksIdle /\ ExecIdle /\ RootIdle /\ ParseIdle
    /\ ValidateIdle /\ CmdIdle /\ StatusIdle /\ DefaultIdle /\ AddIdle /\ RaceIdle /\ ExitIdle

NextFlatten == CallFlattenBranchName \/ FlattenAgain

SpecFlatten == InitFlatten /\ [][NextFlatten]_vars

\* the directory name is the branch name with "-" where the branch name has
\* "/" and the same character everywhere else
SlashesOnly(c) ==
    /\ Len(c.dir) = Len(c.branch)
    /\ \A k \in 1..Len(c.branch) :
        c.dir[k] = IF c.branch[k] = "/" THEN "-" ELSE c.branch[k]

FlattenCalls == {bprev, blast} \ {NotCalled}

\* C21: every call of FlattenBranchName returns a name without "/" that is
\* the branch name with each "/" replaced by "-" and nothing else changed;
\* two calls on the same name return the same, and a call on a returned name
\* returns it unchanged
C21_Flatten ==
    /\ \A c \in FlattenCalls :
        /\ ~Has(c.dir, "/")
        /\ SlashesOnly(c)
    /\ \A c, d \in FlattenCalls :
        /\ c.branch = d.branch => c.dir = d.dir
        /\ d.branch = c.dir => d.dir = d.branch

\* two branch names that differ, one of them with a "/", have been given the
\* same directory name, and the directory name has been flattened again
C21_Witness ==
    /\ bprev # NotCalled
    /\ blast # NotCalled
    /\ Has(bprev.branch, "/")
    /\ bprev.branch # blast.branch
    /\ bprev.dir = blast.dir
    /\ blast.branch = bprev.dir

(***************************************************************************)
(* GetWorktreeStatus on what git status reports                            *)
(***************************************************************************)
MaxEntries == 3

\* lines of "git status --porcelain": a modified file, an untracked file, a
\* rename
EntryLines ==
    {ModifiedEntry, <<"?", "?", " ", "g">>, <<"R", " ", " ", "f", " ", "-", ">", " ", "h">>}

CallGetWorktreeStatus ==
    /\ spc = "start"
    /\ sstatus' = GetWorktreeStatusOf(RunStatus(sentries, ~sfails))
    /\ spc' = "done"
    /\ UNCHANGED <<sentries, sfails, notStatus>>

InitStatus ==
    /\ sentries \in SeqsUpTo(EntryLines, MaxEntries)
    /\ sfails \in BOOLEAN
    /\ spc = "start"
    /\ sstatus = NotCalled
    /\ ConfigIdle /\ MergeIdle /\ QuoteIdle /\ HooksIdle /\ ExecIdle /\ RootIdle /\ ParseIdle
    /\ ValidateIdle /\ CmdIdle /\ FlattenIdle /\ DefaultIdle /\ AddIdle /\ RaceIdle /\ ExitIdle

SpecStatus == InitStatus /\ [][CallGetWorktreeStatus]_vars

\* the error is nil; the status is "unknown" exactly when git failed, "clean"
\* exactly when git reported no entry, else the count of the entries
StatusOfEntries ==
    spc = "done" =>
        /\ sstatus.err = "nil"
        /\ sstatus.status = "unknown" <=> sfails
        /\ sstatus.status = "clean" <=> ~sfails /\ sentries = <<>>
        /\ ~sfails /\ sentries # <<>> =>
            /\ Len(sentries) >= 1
            /\ sstatus.status = ToString(Len(sentries)) \o " modified"

ThreeModified == spc = "done" /\ sstatus.status = "3 modified"

(***************************************************************************)
(* Properties of the status query in list and delete                       *)
(***************************************************************************)
\* the running command asked for a status and git failed
StatusFailed == \E k \in 1..Len(clog) : clog[k].op = "git status" /\ ~clog[k].ok

\* the command ended at the refusal of lines 153-169 of delete.go
Refused ==
    \/ cout.err = ErrValidation
    \/ "Use --force to delete worktrees with uncommitted changes." \in cout.printed

\* C22: GetWorktreeStatus returns no error, "unknown" exactly when git status
\* failed, "clean" exactly when it reported nothing, else the count of the
\* reported entries (StatusOfEntries, for the function alone); list and delete
\* do not end early because git status failed
C22_StatusNeverAborts ==
    cpc = "done" /\ call.cmd \in {"list", "delete"} /\ StatusFailed =>
        ~Refused

\* delete of a registered, unmodified worktree was refused after git status
\* failed
RefusedOnFailure ==
    /\ cpc = "done"
    /\ call.cmd = "delete"
    /\ call.name = <<"a">>
    /\ Removable(loc.worktreePath)
    /\ loc.worktreePath \notin gdirty
    /\ loc.status = "unknown"
    /\ StatusFailed
    /\ Refused

\* list goes on after a failed status query and reports "unknown"
ListGoesOn ==
    cpc = "done" /\ call.cmd = "list" /\ StatusFailed =>
        /\ cout.err = "nil"
        /\ \E k \in 1..Len(cout.data.Worktrees) : cout.data.Worktrees[k].Status = "unknown"

(***************************************************************************)
(* GetDefaultBranch, over the remote-tracking refs of the repository       *)
(***************************************************************************)
RemotesOrigin == <<"refs", "/", "remotes", "/", "origin", "/">>
OriginHead == RemotesOrigin \o <<"HEAD">>

\* an entry of dqueries: RunInDir's arguments and what it returned
Query(args, ref, ok, output) == [args |-> args, ref |-> ref, ok |-> ok, output |-> output]

\* "git symbolic-ref refs/remotes/origin/HEAD": the full name of the ref HEAD
\* points to, an error without one
SymbolicRef(ok) ==
    IF ok /\ dhead # <<>>
    THEN Query("symbolic-ref", OriginHead, TRUE, TrimSpace(RemotesOrigin \o dhead \o <<"\n">>))
    ELSE Query("symbolic-ref", OriginHead, FALSE, <<>>)

\* "git rev-parse --verify refs/remotes/origin/<branch>": the commit of the
\* ref, an error without one
RevParseVerify(branch, ok) ==
    IF ok /\ branch \in drefs
    THEN Query("rev-parse", RemotesOrigin \o branch, TRUE, <<"c">>)
    ELSE Query("rev-parse", RemotesOrigin \o branch, FALSE, <<>>)

\* GetDefaultBranch, given what the three subprocesses return when they are
\* run; strings.Split never returns an empty slice for a separator that is
\* not empty
GetDefaultBranch(head, main, master) ==
    IF head.ok
    THEN LET parts == Split(TrimSpace(head.output), "/")
         IN  [queries |-> <<head>>, branch |-> parts[Len(parts)], err |-> "nil"]
    ELSE IF main.ok
    THEN [queries |-> <<head, main>>, branch |-> DefaultBranch, err |-> "nil"]
    ELSE IF master.ok
    THEN [queries |-> <<head, main, master>>, branch |-> FallbackBranch, err |-> "nil"]
    ELSE [queries |-> <<head, main, master>>, branch |-> <<>>,
          err |-> "could not determine default branch"]

CallGetDefaultBranch ==
    /\ dresult = NotCalled
    /\ \E ok1 \in Outcomes, ok2 \in Outcomes, ok3 \in Outcomes :
        LET r == GetDefaultBranch(SymbolicRef(ok1), RevParseVerify(DefaultBranch, ok2),
                                  RevParseVerify(FallbackBranch, ok3))
        IN  /\ dqueries' = r.queries
            /\ dresult' = [branch |-> r.branch, err |-> r.err]
    /\ UNCHANGED <<dhead, drefs, notDefault>>

\* the names a branch of the remote can have
RemoteBranchNames ==
    {DefaultBranch, FallbackBranch}
    \cup {b \in SeqsUpTo({"release", "v1", "/"}, MaxBranchLen) :
             b # <<>> /\ ValidateBranchName(b) = "nil"}

InitDefault ==
    /\ dhead \in {<<>>} \cup RemoteBranchNames
    /\ drefs \in SUBSET {DefaultBranch, FallbackBranch}
    /\ dqueries = <<>>
    /\ dresult = NotCalled
    /\ ConfigIdle /\ MergeIdle /\ QuoteIdle /\ HooksIdle /\ ExecIdle /\ RootIdle /\ ParseIdle
    /\ ValidateIdle /\ CmdIdle /\ FlattenIdle /\ StatusIdle /\ AddIdle /\ RaceIdle /\ ExitIdle

SpecDefault == InitDefault /\ [][CallGetDefaultBranch]_vars

\* the k-th candidate yields something: its subprocess was run and succeeded
Yields(k) == Len(dqueries) >= k /\ dqueries[k].ok

\* the short name of the ref the symbolic-ref subprocess printed
ShortName == TrimPrefix(dqueries[1].output, RemotesOrigin)

\* C23: GetDefaultBranch returns the first candidate that yields something:
\* the ref of the remote HEAD without refs/remotes/origin/, then main, then
\* master; a later candidate is asked only after the earlier ones failed; it
\* fails exactly when all three fail and never returns an empty name with a
\* nil error
C23_DefaultBranchOrder ==
    dresult # NotCalled =>
        /\ Len(dqueries) >= 1
        /\ \A k \in 2..Len(dqueries) : ~dqueries[k - 1].ok
        /\ Yields(1) => dresult = [branch |-> ShortName, err |-> "nil"]
        /\ ~Yields(1) /\ Yields(2) => dresult = [branch |-> DefaultBranch, err |-> "nil"]
        /\ ~Yields(1) /\ ~Yields(2) /\ Yields(3) =>
            dresult = [branch |-> FallbackBranch, err |-> "nil"]
        /\ dresult.err # "nil" <=> ~Yields(1) /\ ~Yields(2) /\ ~Yields(3)
        /\ dresult.err = "nil" => dresult.branch # <<>>

\* the same with the last component of the ref for the remote HEAD
LastComponentOrder ==
    dresult # NotCalled =>
        /\ Len(dqueries) >= 1
        /\ \A k \in 2..Len(dqueries) : ~dqueries[k - 1].ok
        /\ Yields(1) =>
            LET parts == Split(dhead, "/")
            IN  dresult = [branch |-> parts[Len(parts)], err |-> "nil"]
        /\ ~Yields(1) /\ Yields(2) => dresult = [branch |-> DefaultBranch, err |-> "nil"]
        /\ ~Yields(1) /\ ~Yields(2) /\ Yields(3) =>
            dresult = [branch |-> FallbackBranch, err |-> "nil"]
        /\ dresult.err # "nil" <=> ~Yields(1) /\ ~Yields(2) /\ ~Yields(3)
        /\ dresult.err = "nil" => dresult.branch # <<>>

\* the remote HEAD points to release/v1 and the call returned v1
ReleaseV1 ==
    /\ dhead = <<"release", "/", "v1">>
    /\ dresult = [branch |-> <<"v1">>, err |-> "nil"]

(***************************************************************************)
(* runNew: the configuration the command loads and the hooks it runs       *)
(***************************************************************************)
\* config.Load: DefaultConfig for a missing file, an error for any other read
\* error and for a file that does not decode, else the defaults with the
\* fields of the file over them
Load(path) ==
    LET f == fs[path] IN
    IF f.kind = "missing" THEN [cfg |-> DefaultConfig, err |-> "nil"]
    ELSE IF f.kind = "unreadable" THEN [cfg |-> Nil, err |-> "read"]
    ELSE IF f.kind = "malformed" THEN [cfg |-> Nil, err |-> "toml"]
    ELSE [cfg |-> [g \in ConfigFields |->
                      IF IsZero(g, f.cfg[g]) THEN DefaultConfig[g] ELSE f.cfg[g]],
          err |-> "nil"]

\* config.LoadGlobal
LoadGlobal == Load(GlobalPath)

\* hooks.Run(commands, ctx): RunWithTimeout(commands, ctx, 30)
Run(commands) == [commands |-> commands, timeoutSec |-> 30]

\* new.go lines 78-85 and 309-321, in a project (GetProjectRoot has returned
\* projectRoot) and with the worktree created: the configuration is loaded,
\* the post_add hooks are run
NewRunsHooks ==
    /\ ~arun.called
    /\ LET loaded == LoadGlobal
       IN  arun' = IF loaded.err # "nil"
                   THEN [called |-> TRUE, err |-> loaded.err, ran |-> Nil]
                   ELSE [called |-> TRUE, err |-> "nil", ran |-> Run(loaded.cfg.PostAdd)]
    /\ UNCHANGED notAdd

InitAdd ==
    /\ \E g \in FileStates(GlobalConfigs), r \in FileStates(RepoConfigs) :
        fs = [p \in Paths |-> IF p = GlobalPath THEN g ELSE r]
    /\ projectRoot = RepoRoot
    /\ lwr = NotCalled
    /\ le = NotCalled
    /\ arun = NotCalled
    /\ MergeIdle /\ QuoteIdle /\ HooksIdle /\ ExecIdle /\ RootIdle /\ ParseIdle /\ ValidateIdle
    /\ CmdIdle /\ FlattenIdle /\ StatusIdle /\ DefaultIdle /\ RaceIdle /\ ExitIdle

SpecAdd == InitAdd /\ [][NewRunsHooks]_vars

\* C24: with both files missing or well-formed, the hooks the add command
\* runs are the post_add list, and their timeout the hook_timeout, of the
\* repository file if it sets them, else of the global file, else the default
C24_AddUsesEffectiveConfig ==
    (arun.called /\ MissingOrOk(GlobalPath) /\ MissingOrOk(RepoPath)) =>
        /\ arun.err = "nil"
        /\ arun.ran.commands = ByPrecedence("PostAdd")
        /\ arun.ran.timeoutSec = ByPrecedence("HookTimeout")

\* the command runs the post_add list of the global file within 30 seconds
GlobalHooksIn30 ==
    (arun.called /\ MissingOrOk(GlobalPath)) =>
        /\ arun.err = "nil"
        /\ arun.ran.commands = Decoded(GlobalPath).PostAdd
        /\ arun.ran.timeoutSec = 30

\* the repository file sets post_add and the command ran no hook
RepoHooksIgnored ==
    /\ arun.called
    /\ fs[GlobalPath].kind = "missing"
    /\ Decoded(RepoPath).PostAdd = <<"rcmd1", "rcmd2">>
    /\ arun.ran.commands = <<>>

\* the repository file sets hook_timeout to 60 and the hooks got 30 seconds
RepoTimeoutIgnored ==
    /\ arun.called
    /\ MissingOrOk(GlobalPath)
    /\ Decoded(RepoPath).HookTimeout = 60
    /\ arun.ran.timeoutSec = 30

(***************************************************************************)
(* runClone, lines 155-199: clone commands on one target at the same time  *)
(*                                                                         *)
(* Each system call of a command is a step; the steps of the commands      *)
(* interleave.  tdir tells the directories that have been at the target    *)
(* path apart: the number of the command whose os.Mkdir made the present   *)
(* one, Before for one that was there when the commands started.           *)
(***************************************************************************)
Cloners == {1, 2}
Absent == 0
Before == 3

\* a clone command before its first step
Cloner(force) ==
    [pc |-> "stat", force |-> force, saw |-> FALSE, made |-> FALSE, into |-> Absent,
     err |-> "nil"]

\* the command returns
Fails(p, err) == kproc' = [kproc EXCEPT ![p].pc = "done", ![p].err = err]

\* lines 156-173: os.Stat, and without --force the refusal of a target that
\* exists
CloneStat(p) ==
    /\ kproc[p].pc = "stat"
    /\ IF tdir = Absent
       THEN kproc' = [kproc EXCEPT ![p].pc = "mkdir"]
       ELSE IF kproc[p].force
       THEN kproc' = [kproc EXCEPT ![p].pc = "remove", ![p].saw = TRUE]
       ELSE kproc' = [kproc EXCEPT ![p].pc = "done", ![p].saw = TRUE,
                                   ![p].err = ErrAlreadyExists]
    /\ UNCHANGED <<tdir, tparent, notRace>>

\* lines 157-166: os.RemoveAll of the target with --force
CloneRemove(p) ==
    /\ kproc[p].pc = "remove"
    /\ \E ok \in Outcomes :
        IF ok
        THEN /\ tdir' = Absent
             /\ kproc' = [kproc EXCEPT ![p].pc = "mkdir"]
        ELSE /\ tdir' = tdir
             /\ Fails(p, "failed to remove existing directory")
    /\ UNCHANGED <<tparent, notRace>>

\* os.Mkdir(targetDir): the directory is made when there is none and the
\* parent exists
Mkdir(p, ok) == ok /\ tdir = Absent /\ tparent

\* os.MkdirAll(targetDir) in the place of os.Mkdir: no error for a directory
\* that exists
CloneMkdirFirst_MkdirAll(p) ==
    /\ kproc[p].pc = "mkdir"
    /\ \E ok \in Outcomes :
        IF ok
        THEN /\ tdir' = IF tdir = Absent THEN p ELSE tdir
             /\ tparent' = TRUE
             /\ kproc' = [kproc EXCEPT ![p].pc = "clone", ![p].made = (tdir = Absent)]
        ELSE /\ UNCHANGED <<tdir, tparent>>
             /\ kproc' = [kproc EXCEPT ![p].pc = "mkdirall"]
    /\ UNCHANGED notRace

\* line 177: the first os.Mkdir
CloneMkdirFirst(p) ==
    /\ kproc[p].pc = "mkdir"
    /\ \E ok \in Outcomes :
        IF Mkdir(p, ok)
        THEN /\ tdir' = p
             /\ kproc' = [kproc EXCEPT ![p].pc = "clone", ![p].made = TRUE]
        ELSE /\ tdir' = tdir
             /\ kproc' = [kproc EXCEPT ![p].pc = "mkdirall"]
    /\ UNCHANGED <<tparent, notRace>>

\* lines 179-181: os.MkdirAll of the parent
CloneMkdirAll(p) ==
    /\ kproc[p].pc = "mkdirall"
    /\ \E ok \in Outcomes :
        IF ok
        THEN /\ tparent' = TRUE
             /\ kproc' = [kproc EXCEPT ![p].pc = "retry"]
        ELSE /\ tparent' = tparent
             /\ Fails(p, "failed to create parent directory")
    /\ UNCHANGED <<tdir, notRace>>

\* lines 183-185: the second os.Mkdir
CloneMkdirAgain(p) ==
    /\ kproc[p].pc = "retry"
    /\ \E ok \in Outcomes :
        IF Mkdir(p, ok)
        THEN /\ tdir' = p
             /\ kproc' = [kproc EXCEPT ![p].pc = "clone", ![p].made = TRUE]
        ELSE /\ tdir' = tdir
             /\ Fails(p, "failed to create directory")
    /\ UNCHANGED <<tparent, notRace>>

\* line 193: git.BareClone starts to write into whatever is at the target
CloneBareStarts(p) ==
    /\ kproc[p].pc = "clone"
    /\ kproc' = [kproc EXCEPT ![p].pc = "cloning", ![p].into = tdir]
    /\ UNCHANGED <<tdir, tparent, notRace>>

\* lines 193-199: git.BareClone ends; after a failure the target is removed
CloneBareEnds(p) ==
    /\ kproc[p].pc = "cloning"
    /\ \E ok \in Outcomes :
        IF ok
        THEN /\ tdir' = tdir
             /\ Fails(p, "nil")
        ELSE /\ tdir' = Absent
             /\ Fails(p, ErrGit)
    /\ UNCHANGED <<tparent, notRace>>

InitRace ==
    /\ tdir \in {Absent, Before}
    /\ tparent \in BOOLEAN
    /\ tdir = Before => tparent
    /\ kproc \in [Cloners -> {Cloner(force) : force \in BOOLEAN}]
    /\ ConfigIdle /\ MergeIdle /\ QuoteIdle /\ HooksIdle /\ ExecIdle /\ RootIdle /\ ParseIdle
    /\ ValidateIdle /\ CmdIdle /\ FlattenIdle /\ StatusIdle /\ DefaultIdle /\ AddIdle /\ ExitIdle

NextRace ==
    \E p \in Cloners :
        \/ CloneStat(p) \/ CloneRemove(p)
        \/ CloneMkdirFirst(p) \/ CloneMkdirAll(p) \/ CloneMkdirAgain(p)
        \/ CloneBareStarts(p) \/ CloneBareEnds(p)

SpecRace == InitRace /\ [][NextRace]_vars

(***************************************************************************)
(* Properties of concurrent clones                                         *)
(***************************************************************************)
\* the command is at the bare clone or past it
Proceeded(p) == kproc[p].pc \in {"clone", "cloning"} \/ kproc[p].into # Absent

Cloning(p) == kproc[p].pc \in {"clone", "cloning"}

NoForce == \A p \in Cloners : ~kproc[p].force

ForcedUnderneath ==
    \E p \in Cloners : ~kproc[p].force /\ kproc[p].pc = "cloning" /\ tdir \notin {Absent, p}

(***************************************************************************)
(* The text of the hook runner's warnings                                  *)
(***************************************************************************)
IsContextError(text) == text = DeadlineExceeded \/ text = Canceled

\* C26: the warning of a command that exited non-zero before its deadline
\* is the expanded command string, ": " and the exit error of the process;
\* a warning carries a context error only when the deadline fired while the
\* command was running
C26_ExitErrorReported ==
    (htimeout > 0 /\ hpc \in {"loop", "done"}) =>
        /\ Len(hwarnings) = Len(FailedProcs(hprocs))
        /\ \A k \in 1..Len(hwarnings) :
            LET p == FailedProcs(hprocs)[k]
                w == hwarnings[k]
            IN  /\ p.shell = "exitedN" => w = Warning(p.cmdStr, ExitStatus)
                /\ IsContextError(w[Len(w)]) => p.shell = "killed"

\* what RunWithTimeout records: "context canceled" for a command that exited
\* non-zero before its deadline, "context deadline exceeded" for one that
\* was killed at its deadline
CanceledForExit ==
    (htimeout > 0 /\ hpc \in {"loop", "done"}) =>
        /\ Len(hwarnings) = Len(FailedProcs(hprocs))
        /\ \A k \in 1..Len(hwarnings) :
            LET p == FailedProcs(hprocs)[k]
            IN  hwarnings[k] = Warning(p.cmdStr, IF p.shell = "exitedN" THEN Canceled
                                                 ELSE DeadlineExceeded)

\* the command f exited with status 1 within its 30 seconds and its warning
\* says "context canceled"
ExitReportedAsCanceled ==
    /\ htimeout = 30
    /\ hpc = "done"
    /\ hcommands = << <<"f">> >>
    /\ hprocs[1].shell = "exitedN"
    /\ hwarnings = <<Warning(<<"f">>, Canceled)>>

(***************************************************************************)
(* expandTemplates as one pass over the command                            *)
(***************************************************************************)
\* C27: expandTemplates returns the command with each placeholder that
\* occurs in it replaced by the quoted context value, the same string on
\* every call; a placeholder inside a context value is not expanded, so sh
\* reads what the one-pass replacement gives: every value inside its own
\* quotes, nothing of a value run and no quote left open
C27_SinglePass ==
    /\ qpc # "start" =>
        /\ qout = Simultaneous(qcmd, qctx)
        /\ expandTemplates(qcmd, qctx) = {qout}
    /\ qpc = "read" =>
        /\ qread = ShellRead(Simultaneous(qcmd, qctx))
        /\ ~qread.active
        /\ ~qread.open

\* a branch named {{.Path}}: the command {{.Branch}} was expanded to a string
\* in which the placeholder of the branch name has been expanded in turn
ExpandedTwice ==
    /\ qpc # "start"
    /\ qcmd = <<PBranch>>
    /\ qctx.Branch = <<PPath>>
    /\ ValidateBranchName(qctx.Branch) = "nil"
    /\ qout = <<"'">> \o shellQuote(qctx.Path) \o <<"'">>

\* the same call can return two strings
TwoResults ==
    /\ qpc # "start"
    /\ qctx.Branch = <<PPath>>
    /\ Cardinality(expandTemplates(qcmd, qctx)) > 1

\* no context value holds a placeholder
PlainValues ==
    \A v \in ContextValuesOf(qctx) : \A k \in 1..Len(v) : v[k] \notin Placeholders

\* with context values that hold no placeholder the call is the one-pass
\* replacement
SinglePassOnPlainValues == PlainValues => C27_SinglePass

(***************************************************************************)
(* Which worktree delete removes                                           *)
(***************************************************************************)
\* the registered worktrees a step takes out of the repository
Unregistered == {k \in 1..Len(gwt) : ~\E j \in 1..Len(gwt') : gwt'[j] = gwt[k]}

\* C28: a step of delete X takes a worktree out of the repository only if
\* the branch checked out in it is X, also when another branch has the
\* directory name X flattens to
C28_DeletesOwnBranch ==
    [][call.cmd = "delete" => \A k \in Unregistered : gwt[k].Branch = call.name]_vars

\* delete a-b has removed the worktree of the branch a/b: the branch a/b is
\* left without a worktree, and there was no branch a-b to delete
WrongWorktreeRemoved ==
    /\ Succeeded("delete")
    /\ call.name = <<"a", "-", "b">>
    /\ HasRemoved
    /\ <<"a", "/", "b">> \in gbranches
    /\ EntriesOf(<<"a", "/", "b">>) = {}
    /\ <<"a", "-", "b">> \notin gbranches
    /\ ~cout.data.BranchDeleted

\* what delete removes is the registered worktree at the flattened path
DeletesFlattenedPath ==
    [][call.cmd = "delete" =>
          \A k \in Unregistered : gwt[k].Path = WorktreePathOf(call.name)]_vars

(***************************************************************************)
(* prune and list in a project with a worktree on a branch and a worktree  *)
(* with a detached HEAD                                                    *)
(***************************************************************************)
BareEntry == [Path |-> Append(CmdProjectRoot, BareComponent), Branch |-> <<>>, kind |-> "bare"]
MainEntry ==
    [Path |-> Append(CmdProjectRoot, DefaultBranch), Branch |-> DefaultBranch, kind |-> "branch"]

\* the worktree add a makes, and a worktree whose HEAD is detached ("git
\* worktree add --detach", or "git checkout --detach" inside a worktree)
BranchEntry == [Path |-> Append(CmdProjectRoot, <<"a">>), Branch |-> <<"a">>, kind |-> "branch"]
DetachedEntry == [Path |-> Append(CmdProjectRoot, <<"d">>), Branch |-> <<>>, kind |-> "detached"]

InitPrune ==
    /\ \E linked \in {<<>>, <<BranchEntry>>, <<DetachedEntry>>, <<BranchEntry, DetachedEntry>>} :
        /\ gwt = <<BareEntry, MainEntry>> \o linked
        /\ gbranches = {DefaultBranch} \cup ({linked[k].Branch : k \in 1..Len(linked)} \ {<<>>})
        /\ gdirty \in SUBSET {linked[k].Path : k \in 1..Len(linked)}
        /\ fdirs = {<<>>, WorktreeRoot, CmdProjectRoot, BareEntry.Path, MainEntry.Path}
                       \cup {linked[k].Path : k \in 1..Len(linked)}
    /\ gremote \in {{}, {<<"a">>}}
    /\ clog = <<>>
    /\ call = NoCall
    /\ cpc = "idle"
    /\ loc = NoLocals
    /\ cout = NoOutput
    /\ ConfigIdle /\ MergeIdle /\ QuoteIdle /\ HooksIdle /\ ExecIdle /\ RootIdle /\ ParseIdle
    /\ ValidateIdle /\ FlattenIdle /\ StatusIdle /\ DefaultIdle /\ AddIdle /\ RaceIdle /\ ExitIdle

NextPrune ==
    \/ PruneCall \/ PruneConfirm \/ PruneRemove \/ PruneFinish
    \/ ListCall
    \/ CmdExit

SpecPrune == InitPrune /\ [][NextPrune]_vars

(***************************************************************************)
(* Properties of prune                                                     *)
(***************************************************************************)
\* the entries list shows
HasBranch(wt) == ~Skipped(wt)

\* a listed worktree with a branch that is neither main nor master and has
\* no remote-tracking ref
StaleBranch(wt) ==
    /\ HasBranch(wt)
    /\ wt.Branch \notin {DefaultBranch, FallbackBranch}
    /\ ~OnRemote(wt.Branch)

\* the same without the condition that the entry has a branch
StaleEntry(wt) == wt.Branch \notin {DefaultBranch, FallbackBranch} /\ ~OnRemote(wt.Branch)

\* C29: prune spawns no removal of the entry of the bare repository nor of
\* a worktree without a branch, and no deletion of a branch with an empty
\* name; the worktrees it takes as stale are exactly the listed ones with a
\* branch that is not main or master and has no remote-tracking ref
C29_PruneSkipsBranchless ==
    call.cmd = "prune" =>
        /\ \A k \in 1..Len(clog) :
            /\ IsRemoval(k) =>
                /\ clog[k].path # BareEntry.Path
                /\ \E n \in 1..Len(loc.stale) :
                      PathOf(loc.stale[n].Path) = clog[k].path /\ loc.stale[n].Branch # <<>>
            /\ IsBranchDeletion(k) => clog[k].branch # <<>>
        /\ cpc = "confirm" => loc.stale = SelectSeq(ListWorktrees(gwt), StaleBranch)

\* what prune takes as stale: every listed entry whose Branch is not main or
\* master and not on the remote, the entries without a branch among them
StaleWithoutBranch ==
    (call.cmd = "prune" /\ cpc = "confirm") =>
        loc.stale = SelectSeq(ListWorktrees(gwt), StaleEntry)

\* prune has asked git to remove the bare repository
BareRemovalAttempted ==
    /\ call.cmd = "prune"
    /\ \E k \in 1..Len(clog) : IsRemoval(k) /\ clog[k].path = BareEntry.Path

\* prune has removed, with --force, a worktree with a detached HEAD and
\* uncommitted changes, and has asked git to delete the branch ""
DetachedRemoved ==
    /\ Succeeded("prune")
    /\ ~Registered(DetachedEntry.Path)
    /\ \E k \in 1..Len(clog) :
        /\ IsRemoval(k) /\ clog[k].path = DetachedEntry.Path /\ clog[k].force /\ clog[k].ok
        /\ k < Len(clog) /\ IsBranchDeletion(k + 1) /\ clog[k + 1].branch = <<>>

\* list shows only the worktrees with a branch
ListSkipsBranchless ==
    Succeeded("list") =>
        \A k \in 1..Len(cout.data.Worktrees) :
            /\ cout.data.Worktrees[k].Branch # <<>>
            /\ PathOf(cout.data.Worktrees[k].Path) # BareEntry.Path

(***************************************************************************)
(* internal/ui: CLIError, OutputJSON, GetExitCode; commands.Execute        *)
(*                                                                         *)
(* A command in JSON mode ends with "return ui.OutputJSON(os.Stdout,       *)
(* command, data, err)", err nil for a success, else a CLIError or the     *)
(* error of a callee; Execute turns what RunE returned into the exit       *)
(* status.                                                                 *)
(***************************************************************************)
ExitSuccess == 0
ExitError == 1
ExitValidation == 2
ExitGit == 3
ExitGitHub == 4
ExitTimeout == 124

ErrorCodes ==
    {"validation_error", "git_error", "github_error", "timeout_error", "not_in_project",
     "already_exists", "not_found"}

\* NewCLIError
NewCLIError(code, message) ==
    [Code |-> code, Message |-> message,
     Exit |-> CASE code = "validation_error" -> ExitValidation
                [] code = "git_error" -> ExitGit
                [] code = "github_error" -> ExitGitHub
                [] code = "timeout_error" -> ExitTimeout
                [] OTHER -> ExitError]

\* an error that is not a *CLIError
PlainError(message) == [Message |-> message]

\* err.(*CLIError)
IsCLIError(err) == "Code" \in DOMAIN err

\* OutputJSON: the envelope, and what encoder.Encode returns: nil when the
\* envelope has been written
OutputJSON(command, data, err, written) ==
    [resp |-> IF err # Nil
              THEN [Success |-> FALSE, Command |-> command, Data |-> Nil,
                    Error |-> IF IsCLIError(err) THEN err
                              ELSE [Code |-> "git_error", Message |-> err.Message,
                                    Exit |-> 0]]
              ELSE [Success |-> TRUE, Command |-> command, Data |-> data, Error |-> Nil],
     err |-> IF written THEN Nil ELSE PlainError("write")]

\* GetExitCode
GetExitCode(err) ==
    IF err = Nil THEN ExitSuccess
    ELSE IF IsCLIError(err) THEN err.Exit
    ELSE ExitError

\* the errors a command in JSON mode gives to OutputJSON
ReportedErrors ==
    {Nil, PlainError("m")} \cup {NewCLIError(code, "m") : code \in ErrorCodes}

JSONCommands == {"new", "delete", "prune", "clone", "list", "repair"}

\* return ui.OutputJSON(os.Stdout, command, data, err)
ReturnOutputJSON ==
    /\ eret = NotCalled
    /\ \E command \in JSONCommands, err \in ReportedErrors, written \in Outcomes :
        LET out == OutputJSON(command, <<>>, err, written)
        IN  /\ eresp' = IF written THEN out.resp ELSE NotCalled
            /\ eret' = out.err
    /\ UNCHANGED <<eexit, notExit>>

\* Execute, lines 37-50: os.Exit(ui.GetExitCode(err)) when err is not nil,
\* else the process ends with status 0
Execute ==
    /\ eret # NotCalled
    /\ eexit = NotCalled
    /\ eexit' = [status |-> IF eret # Nil THEN GetExitCode(eret) ELSE ExitSuccess]
    /\ UNCHANGED <<eresp, eret, notExit>>

InitExit ==
    /\ eresp = NotCalled
    /\ eret = NotCalled
    /\ eexit = NotCalled
    /\ ConfigIdle /\ MergeIdle /\ QuoteIdle /\ HooksIdle /\ ExecIdle /\ RootIdle /\ ParseIdle
    /\ ValidateIdle /\ CmdIdle /\ FlattenIdle /\ StatusIdle /\ DefaultIdle /\ AddIdle /\ RaceIdle

NextExit == ReturnOutputJSON \/ Execute

SpecExit == InitExit /\ [][NextExit]_vars

(***************************************************************************)
(* Properties of the exit status                                           *)
(***************************************************************************)
\* the exit status of an error code
StatusOfCode(code) ==
    IF code = "validation_error" THEN 2
    ELSE IF code = "git_error" THEN 3
    ELSE IF code = "github_error" THEN 4
    ELSE IF code = "timeout_error" THEN 124
    ELSE 1

Emitted == eresp # NotCalled
Exited == eexit # NotCalled

\* C30: when the envelope written in JSON mode has success false, the exit
\* status is the non-zero one of its error code (validation 2, git 3,
\* github 4, timeout 124, any other 1); the exit status is 0 only when the
\* envelope has success true
C30_JSONExitStatus ==
    Exited =>
        /\ (Emitted /\ ~eresp.Success) =>
            /\ eexit.status = StatusOfCode(eresp.Error.Code)
            /\ eexit.status # 0
        /\ eexit.status = 0 => Emitted /\ eresp.Success

\* what the process does: status 0 whenever the envelope has been written,
\* 1 when writing it failed
ZeroWhenWritten ==
    Exited => eexit.status = IF Emitted THEN 0 ELSE 1

\* the envelope says not_found, the exit status is 0
FailureExitsZero ==
    /\ Exited
    /\ Emitted
    /\ eresp = [Success |-> FALSE, Command |-> "delete", Data |-> Nil,
                Error |-> NewCLIError("not_found", "m")]
    /\ eexit.status = 0

\* NewCLIError and GetExitCode by themselves give the status of the code
CodeToStatus ==
    \A code \in ErrorCodes : GetExitCode(NewCLIError(code, "m")) = StatusOfCode(code)

====
